---------------------------- MODULE Spec2Model ----------------------------
(***************************************************************************)
(* A model of the three AWS support scripts: ami_sweeper.py (snapshot and  *)
(* image garbage collector), fabfile.py (predeploy / postdeploy) and       *)
(* update_ami.py (freeze, image, unfreeze).                                *)
(*                                                                         *)
(* Strings are sequences of one-character strings, so that Python's        *)
(* substring test, rstrip, strip and readlines are computed and not        *)
(* assumed.  The cloud and the remote hosts are the environment: what a    *)
(* describe call answers or whether a call fails is a nondeterministic     *)
(* choice made when the call is issued.                                    *)
(***************************************************************************)
EXTENDS Integers, Sequences, FiniteSets, TLC

VARIABLES
    \* ---- ami_sweeper.py, delete_snapshots ----
    snapAttr,            \* snapshot id -> [owner, tags] (the account's cloud state)
    pages,               \* the pages describe_snapshots answers, in order
    ignore_string,       \* options.ignore_string
    respIdx,             \* which page `response` currently holds (0: none yet)
    list_snapshots,      \* list_snapshots
    snapIdx,             \* position of the for loop of line 70 in list_snapshots
    deleted_snapshots,   \* deleted_snapshots
    retained_snapshots,  \* retained_snapshots
    deleteCalls,         \* the ids s.delete() was called on, in call order
    snapSleeps,          \* number of sleep(wait_time) calls
    snpc,                \* position of delete_snapshots
    \* ---- ami_sweeper.py, deregister_images ----
    images,              \* every image visible to the account: [id, owner, name]
    tmp_string,          \* options.tmp_string
    images_to_deregister,
    images_deregistered,
    images_retained,
    deregisterCalls,     \* the image ids deregister_image was called on, in order
    impc,                \* position of deregister_images
    \* ---- the poll loops: wait_copy, wait_deregister ----
    pollFn,              \* which loop runs
    timeout,             \* int(environ['TIMEOUT']) / kwargs 'timeout'
    runinterval,         \* runinterval
    timer,               \* timer
    pollSleeps,          \* number of sleep(runinterval) calls
    pollLog,             \* what each describe_images call answered, in order
    pollRes,             \* "polling", "returned", "abort" or "MyTimeoutError"
    \* ---- the locators: find_ami_id, find_instance_id ----
    locFn,               \* which locator is called
    resources,           \* what the cloud enumerates: images or instances
    search_name,         \* search_name
    locRes,              \* NotCalled, then [ret: id] or [exit: kind]
    \* ---- the workflows: fabfile.py main, update_ami.py main ----
    script,              \* "fab" or "update_ami"
    operation,           \* "predeploy", "postdeploy" (fab) or "refresh" (update_ami)
    cookie,              \* environ['BUILD_VERSION_NAME'] of the run
    wpc,                 \* position of main in the run
    runs,                \* number of runs started
    wtimeout,            \* TIMEOUT
    cloud,               \* the images describe calls list: [id, owner, name, state]
    imageSeq,            \* number of image ids the cloud has handed out
    instances,           \* the instances the cloud enumerates
    elbInstances,        \* classic load balancer name -> instance ids registered
    tgTargets,           \* target group arn -> instance ids registered
    tmp,                 \* /tmp: directory -> [exists, files]
    current_instance_id,
    current_image_id,
    current_elb_names,          \* a set; {} stands for None as well
    current_target_group_arns,  \* a set; {} stands for None as well
    elb_names,                  \* a list; <<>> stands for None as well
    target_group_arns,          \* a list; <<>> stands for None as well
    wtimer,              \* timer of the run's wait_deregister
    callLog,             \* the changing calls the run has issued, in order
    sawAbsent,           \* the run's poll has seen a response with no image
    written,             \* cookie -> category -> the entry sets stored and not cleaned
    removedFrom,         \* cookie -> category -> memberships predeploy removed
    \* ---- fabfile.py, the task test, a process of its own ----
    tpc,                 \* position of test in its run
    pid,                 \* str(getpid()) of the run, once line 625 has read it
    \* ---- update_ami.py, freeze_or_unfreeze_filesystems ----
    fsIdx,               \* position of the for loop of line 172 in filesystems
    \* ---- ami_sweeper.py, the loop over the accounts ----
    accounts,            \* options.accounts.split(",")
    accountIdx,          \* position of the for loop of line 184 in accounts
    deleteLog,           \* how each s.delete() call ended, in call order
    \* ---- update_ami.py, the wait for the remote command's end of stream ----
    waitFn,              \* which function waits
    eof_received,        \* stdout.channel.eof_received
    elapsed,             \* time() since endtime was computed, in seconds
    waitSleeps,          \* number of sleep(1) calls
    channelsClosed,      \* stdout.channel.close() and stderr.channel.close() ran
    waitRes,             \* "waiting", "reading" or "returned"
    \* ---- update_ami.py, wait_deregister under AWSRetry.backoff ----
    max_tries,           \* the executions the decorator has left
    executions           \* number of times the decorated function was entered

snapVars == <<snapAttr, pages, ignore_string, respIdx, list_snapshots, snapIdx,
              deleted_snapshots, retained_snapshots, deleteCalls, snapSleeps, snpc>>
imgVars == <<images, tmp_string, images_to_deregister, images_deregistered,
             images_retained, deregisterCalls, impc>>
pollVars == <<pollFn, timeout, runinterval, timer, pollSleeps, pollLog, pollRes>>
locVars == <<locFn, resources, search_name, locRes>>
envVars == <<cloud, imageSeq, instances, elbInstances, tgTargets, tmp>>
runVars == <<script, operation, cookie, wpc, runs, wtimeout>>
localVars == <<current_instance_id, current_image_id, current_elb_names,
               current_target_group_arns, elb_names, target_group_arns, wtimer>>
ghostVars == <<callLog, sawAbsent, written, removedFrom>>
testVars == <<tpc, pid>>
sshVars == <<fsIdx>>
flowVars == <<envVars, runVars, localVars, ghostVars, testVars, sshVars>>
mainVars == <<accounts, accountIdx, deleteLog>>
waitVars == <<waitFn, eof_received, elapsed, waitSleeps, channelsClosed, waitRes>>
retryVars == <<max_tries, executions>>

----------------------------------------------------------------------------
(* Bounds of the model. *)
MaxSnaps == 2
MaxPages == 2
MaxImages == 2
MaxTimeout == 4
MaxInterval == 2
MaxPolls == 6
MaxResources == 2
MaxRuns == 3
MaxDirs == 2 * MaxRuns + 1

(* The account the script runs under, and some other account. *)
Self == "self"
Accounts == {Self, "other"}

----------------------------------------------------------------------------
(* Strings. *)

Range(s) == {s[i] : i \in 1..Len(s)}

(* The mutant of Contains: the marker is looked for at the end of the name only. *)
EndsWith(sub, s) ==
    /\ Len(sub) <= Len(s)
    /\ SubSeq(s, Len(s) - Len(sub) + 1, Len(s)) = sub

(* Python's `sub in s` on strings. *)
Contains(sub, s) ==
    \E i \in 0..(Len(s) - Len(sub)) : SubSeq(s, i + 1, i + Len(sub)) = sub

(* Names used for Name tags and image names, and the markers of the options. *)
Names == {<<"n">>, <<"n", "_", "T">>, <<"_", "T", "n">>}
Markers == {<<"_", "T">>}

(* The tag lists a snapshot may carry: none, no Name tag, a Name tag. *)
OtherTag == [Key |-> "Env", Value |-> <<"_", "T">>]
NameTag(n) == [Key |-> "Name", Value |-> n]
TagLists == {<<>>, <<OtherTag>>}
            \cup {<<NameTag(n)>> : n \in Names}
            \cup {<<OtherTag, NameTag(n)>> : n \in Names}

----------------------------------------------------------------------------
(* ami_sweeper.py: delete_snapshots.                                       *)

(* test_protected: "True", "False", or "None" when the snapshot has tags
   but none of them is the Name tag (the function falls off its end). *)
RECURSIVE test_protected_from(_, _, _)
test_protected_from(tags, i, string) ==
    IF i > Len(tags) THEN "None"
    ELSE IF tags[i].Key = "Name"
         THEN (IF Contains(string, tags[i].Value) THEN "True" ELSE "False")
         ELSE test_protected_from(tags, i + 1, string)

test_protected(tags, string) ==
    IF tags # <<>> THEN test_protected_from(tags, 1, string) ELSE "False"

(* test_ownership: the snapshot's owner against the caller identity. *)
test_ownership(owner) == IF owner = Self THEN "True" ELSE "False"

(* `'NextToken' in response`: the response held is not the last page. *)
HasNextToken == respIdx < Len(pages)

(* The outcomes of s.delete(): done, or a ClientError whose code is
   InvalidSnapshot.InUse, a code of a transient failure, or another code. *)
DeleteOutcomes == {"deleted", "InUse", "RequestLimitExceeded", "OtherError"}

(* Lines 55-58: the first describe_snapshots call and the first page. *)
SnapDescribeFirst ==
    /\ snpc = "start"
    /\ respIdx' = 1
    /\ list_snapshots' = list_snapshots \o pages[1]
    /\ snpc' = "while"
    /\ UNCHANGED <<snapAttr, pages, ignore_string, snapIdx, deleted_snapshots,
                   retained_snapshots, deleteCalls, snapSleeps>>
    /\ UNCHANGED <<imgVars, pollVars, locVars, flowVars, mainVars, waitVars, retryVars>>

(* Lines 59-68: the loop condition holds; the next page is fetched and added. *)
SnapNextPage ==
    /\ snpc = "while"
    /\ HasNextToken
    /\ respIdx' = respIdx + 1
    /\ list_snapshots' = list_snapshots \o pages[respIdx + 1]
    /\ snapIdx' = 1
    /\ snpc' = "for"
    /\ UNCHANGED <<snapAttr, pages, ignore_string, deleted_snapshots,
                   retained_snapshots, deleteCalls, snapSleeps>>
    /\ UNCHANGED <<imgVars, pollVars, locVars, flowVars, mainVars, waitVars, retryVars>>

(* Lines 70-79: one snapshot of the list, protected or not owned: retained. *)
SnapRetain ==
    /\ snpc = "for"
    /\ snapIdx <= Len(list_snapshots)
    /\ LET s == list_snapshots[snapIdx]
           test_protected_result == test_protected(snapAttr[s].tags, ignore_string)
           test_ownership_result == test_ownership(snapAttr[s].owner)
       IN  /\ (test_protected_result = "True" \/ test_ownership_result = "False")
           /\ retained_snapshots' = Append(retained_snapshots, s)
    /\ snapIdx' = snapIdx + 1
    /\ UNCHANGED <<snapAttr, pages, ignore_string, respIdx, list_snapshots,
                   deleted_snapshots, deleteCalls, snapSleeps, snpc>>
    /\ UNCHANGED <<imgVars, pollVars, locVars, flowVars, mainVars, waitVars, retryVars>>

(* The mutant of SnapDelete: every ClientError is handled as InUse is. *)
SnapDeleteEveryErrorRetained ==
    /\ snpc = "for"
    /\ snapIdx <= Len(list_snapshots)
    /\ LET s == list_snapshots[snapIdx]
           test_protected_result == test_protected(snapAttr[s].tags, ignore_string)
           test_ownership_result == test_ownership(snapAttr[s].owner)
       IN  /\ ~(test_protected_result = "True" \/ test_ownership_result = "False")
           /\ deleteCalls' = Append(deleteCalls, s)
           /\ \E outcome \in DeleteOutcomes :
                /\ deleteLog' = Append(deleteLog, outcome)
                /\ IF outcome = "deleted"
                   THEN /\ deleted_snapshots' = Append(deleted_snapshots, s)
                        /\ snapIdx' = snapIdx + 1
                        /\ UNCHANGED <<retained_snapshots, snpc>>
                   ELSE /\ retained_snapshots' = Append(retained_snapshots, s)
                        /\ snapIdx' = snapIdx + 1
                        /\ UNCHANGED <<deleted_snapshots, snpc>>
    /\ UNCHANGED <<snapAttr, pages, ignore_string, respIdx, list_snapshots, snapSleeps>>
    /\ UNCHANGED <<imgVars, pollVars, locVars, flowVars, accounts, accountIdx,
                   waitVars, retryVars>>

(* Lines 80-92: one snapshot of the list, delete attempted. *)
SnapDelete ==
    /\ snpc = "for"
    /\ snapIdx <= Len(list_snapshots)
    /\ LET s == list_snapshots[snapIdx]
           test_protected_result == test_protected(snapAttr[s].tags, ignore_string)
           test_ownership_result == test_ownership(snapAttr[s].owner)
       IN  /\ ~(test_protected_result = "True" \/ test_ownership_result = "False")
           /\ deleteCalls' = Append(deleteCalls, s)
           /\ \E outcome \in DeleteOutcomes :
                /\ deleteLog' = Append(deleteLog, outcome)
                /\ IF outcome = "deleted"
                   THEN /\ deleted_snapshots' = Append(deleted_snapshots, s)
                        /\ snapIdx' = snapIdx + 1
                        /\ UNCHANGED <<retained_snapshots, snpc>>
                   ELSE IF outcome = "InUse"
                   THEN /\ retained_snapshots' = Append(retained_snapshots, s)
                        /\ snapIdx' = snapIdx + 1
                        /\ UNCHANGED <<deleted_snapshots, snpc>>
                   ELSE /\ snpc' = "SystemExit"
                        /\ UNCHANGED <<deleted_snapshots, retained_snapshots,
                                       snapIdx>>
    /\ UNCHANGED <<snapAttr, pages, ignore_string, respIdx, list_snapshots, snapSleeps>>
    /\ UNCHANGED <<imgVars, pollVars, locVars, flowVars, accounts, accountIdx,
                   waitVars, retryVars>>

(* Lines 93-94: the list is emptied and the loop sleeps. *)
SnapEndPage ==
    /\ snpc = "for"
    /\ snapIdx > Len(list_snapshots)
    /\ list_snapshots' = <<>>
    /\ snapSleeps' = snapSleeps + 1
    /\ snpc' = "while"
    /\ UNCHANGED <<snapAttr, pages, ignore_string, respIdx, snapIdx,
                   deleted_snapshots, retained_snapshots, deleteCalls>>
    /\ UNCHANGED <<imgVars, pollVars, locVars, flowVars, mainVars, waitVars, retryVars>>

(* Line 95: no NextToken in the response: the two lists are returned. *)
SnapReturn ==
    /\ snpc = "while"
    /\ ~HasNextToken
    /\ snpc' = "returned"
    /\ UNCHANGED <<snapAttr, pages, ignore_string, respIdx, list_snapshots, snapIdx,
                   deleted_snapshots, retained_snapshots, deleteCalls, snapSleeps>>
    /\ UNCHANGED <<imgVars, pollVars, locVars, flowVars, mainVars, waitVars, retryVars>>

(* The ways to cut the ids 1..n into k consecutive pages (pages may be empty). *)
RECURSIVE Pagings(_, _, _)
Pagings(from, n, k) ==
    IF k = 1 THEN {<<[i \in 1..(n - from + 1) |-> from + i - 1]>>}
    ELSE UNION {{<<[i \in 1..(cut - from) |-> from + i - 1]>> \o rest :
                    rest \in Pagings(cut, n, k - 1)} : cut \in from..(n + 1)}

SnapIdle ==
    /\ snapAttr = <<>> /\ pages = <<>> /\ ignore_string = <<>> /\ respIdx = 0
    /\ list_snapshots = <<>> /\ snapIdx = 0 /\ deleted_snapshots = <<>>
    /\ retained_snapshots = <<>> /\ deleteCalls = <<>> /\ snapSleeps = 0
    /\ snpc = "idle"

MainIdle == accounts = <<>> /\ accountIdx = 0 /\ deleteLog = <<>>

InitSnap ==
    /\ \E n \in 0..MaxSnaps :
         /\ snapAttr \in [1..n -> [owner : Accounts, tags : TagLists]]
         /\ \E k \in 1..MaxPages : pages \in Pagings(1, n, k)
    /\ ignore_string \in Markers
    /\ respIdx = 0
    /\ list_snapshots = <<>>
    /\ snapIdx = 0
    /\ deleted_snapshots = <<>>
    /\ retained_snapshots = <<>>
    /\ deleteCalls = <<>>
    /\ snapSleeps = 0
    /\ snpc = "start"

----------------------------------------------------------------------------
(* ami_sweeper.py: deregister_images.                                      *)

(* ec2r.images.filter(owner-id = caller account).all(), in enumeration order. *)
OwnedBy(imgs, account) == SelectSeq(imgs, LAMBDA im : im.owner = account)

(* The mutant of OwnedImages: the owner filter is lost. *)
AllImages(imgs) == imgs

OwnedImages(imgs) == OwnedBy(imgs, Self)

(* The status codes a deregister_image response may carry. *)
HttpCodes == {200, 500}

(* Lines 106-119: the owned images are split on `tmp_string in image.name`. *)
ImgSelect ==
    /\ impc = "start"
    /\ LET owned == OwnedImages(images)
       IN  /\ images_to_deregister' =
                 SelectSeq(owned, LAMBDA im : Contains(tmp_string, im.name))
           /\ images_retained' =
                 LET kept == SelectSeq(owned, LAMBDA im : ~Contains(tmp_string, im.name))
                 IN  [i \in 1..Len(kept) |-> kept[i].id]
    /\ impc' = "for"
    /\ UNCHANGED <<images, tmp_string, images_deregistered, deregisterCalls>>
    /\ UNCHANGED <<snapVars, pollVars, locVars, flowVars, mainVars, waitVars, retryVars>>

(* Lines 120-128: one deregister_image call, recorded when it answers 200. *)
ImgDeregister ==
    /\ impc = "for"
    /\ Len(deregisterCalls) < Len(images_to_deregister)
    /\ LET image == images_to_deregister[Len(deregisterCalls) + 1]
       IN  /\ deregisterCalls' = Append(deregisterCalls, image.id)
           /\ \E http_code \in HttpCodes :
                images_deregistered' =
                    IF http_code = 200 THEN Append(images_deregistered, image.id)
                    ELSE images_deregistered
    /\ UNCHANGED <<images, tmp_string, images_to_deregister, images_retained, impc>>
    /\ UNCHANGED <<snapVars, pollVars, locVars, flowVars, mainVars, waitVars, retryVars>>

(* Line 129. *)
ImgReturn ==
    /\ impc = "for"
    /\ Len(deregisterCalls) = Len(images_to_deregister)
    /\ impc' = "returned"
    /\ UNCHANGED <<images, tmp_string, images_to_deregister, images_deregistered,
                   images_retained, deregisterCalls>>
    /\ UNCHANGED <<snapVars, pollVars, locVars, flowVars, mainVars, waitVars, retryVars>>

ImgIdle ==
    /\ images = <<>> /\ tmp_string = <<>> /\ images_to_deregister = <<>>
    /\ images_deregistered = <<>> /\ images_retained = <<>>
    /\ deregisterCalls = <<>> /\ impc = "idle"

InitImg ==
    /\ \E n \in 0..MaxImages :
         \E attr \in [1..n -> [owner : Accounts, name : Names]] :
            images = [i \in 1..n |-> [id |-> i, owner |-> attr[i].owner,
                                      name |-> attr[i].name]]
    /\ tmp_string \in Markers
    /\ images_to_deregister = <<>>
    /\ images_deregistered = <<>>
    /\ images_retained = <<>>
    /\ deregisterCalls = <<>>
    /\ impc = "start"

----------------------------------------------------------------------------
(* ami_sweeper.py: the loop over the accounts (lines 184-193).             *)

(* options.accounts: the default, and the example of the help text. *)
AccountLists == {<<"dev">>, <<"dev", "stg">>}

(* The snapshots an account may hold: deletable, protected, not owned. *)
SweepSnapshotKinds ==
    {[owner |-> Self, tags |-> <<>>],
     [owner |-> Self, tags |-> <<NameTag(<<"n", "_", "T">>)>>],
     [owner |-> "other", tags |-> <<>>]}

(* The images an account may list when deregister_images is called. *)
SweepImageLists ==
    {<<>>,
     <<[id |-> 1, owner |-> Self, name |-> <<"n", "_", "T">>]>>,
     <<[id |-> 1, owner |-> "other", name |-> <<"n", "_", "T">>],
       [id |-> 2, owner |-> Self, name |-> <<"n">>],
       [id |-> 3, owner |-> Self, name |-> <<"_", "T", "n">>]>>}

(* Lines 184-187: the next account; delete_snapshots is called on what the
   account holds. *)
SweepNextAccount ==
    /\ accountIdx < Len(accounts)
    /\ accountIdx = 0 \/ impc = "returned"
    /\ accountIdx' = accountIdx + 1
    /\ \E n \in 0..MaxSnaps :
         /\ snapAttr' \in [1..n -> SweepSnapshotKinds]
         /\ \E k \in 1..MaxPages : pages' \in Pagings(1, n, k)
    /\ respIdx' = 0
    /\ list_snapshots' = <<>>
    /\ snapIdx' = 0
    /\ deleted_snapshots' = <<>>
    /\ retained_snapshots' = <<>>
    /\ deleteCalls' = <<>>
    /\ deleteLog' = <<>>
    /\ snpc' = "start"
    /\ images' = <<>>
    /\ images_to_deregister' = <<>>
    /\ images_deregistered' = <<>>
    /\ images_retained' = <<>>
    /\ deregisterCalls' = <<>>
    /\ impc' = "pending"
    /\ snapSleeps' = 0
    /\ UNCHANGED <<ignore_string, tmp_string, accounts>>
    /\ UNCHANGED <<pollVars, locVars, flowVars, waitVars, retryVars>>

(* Lines 188-190: delete_snapshots has returned; deregister_images is
   called. *)
SweepDeregisterImages ==
    /\ snpc = "returned"
    /\ impc = "pending"
    /\ images' \in SweepImageLists
    /\ impc' = "start"
    /\ UNCHANGED <<tmp_string, images_to_deregister, images_deregistered,
                   images_retained, deregisterCalls>>
    /\ UNCHANGED <<snapVars, pollVars, locVars, flowVars, mainVars, waitVars, retryVars>>

InitSweep ==
    /\ accounts \in AccountLists
    /\ accountIdx = 0
    /\ deleteLog = <<>>
    /\ ignore_string \in Markers
    /\ tmp_string \in Markers
    /\ snapAttr = <<>> /\ pages = <<>> /\ respIdx = 0
    /\ list_snapshots = <<>> /\ snapIdx = 0 /\ deleted_snapshots = <<>>
    /\ retained_snapshots = <<>> /\ deleteCalls = <<>> /\ snapSleeps = 0
    /\ snpc = "idle"
    /\ images = <<>> /\ images_to_deregister = <<>>
    /\ images_deregistered = <<>> /\ images_retained = <<>>
    /\ deregisterCalls = <<>> /\ impc = "idle"

----------------------------------------------------------------------------
(* The poll loops of fabfile.py and update_ami.py.                         *)

(* What one describe_images call of wait_copy answers: the number of images
   and the state of the first one. *)
CopyAnswers == {"not-found", "pending", "available", "many"}

(* The mutant of wait_copy_step: the timer is not advanced on not-found. *)
wait_copy_step_no_timer(answer, tm, interval, tmo) ==
    IF answer = "available"
    THEN [res |-> "returned", timer |-> tm, slept |-> 0]
    ELSE LET t2 == IF answer = "pending" THEN tm + interval ELSE tm
             sl == IF answer \in {"not-found", "pending"} THEN 1 ELSE 0
         IN  [res |-> IF t2 >= tmo THEN "abort" ELSE "polling",
              timer |-> t2, slept |-> sl]

(* fabfile.py wait_copy, one turn of `while True` after the describe call:
   sleep and advance the timer on not-found or not-available, return on
   available, do neither when several images are listed; then the timeout
   test of line 397. *)
wait_copy_step(answer, tm, interval, tmo) ==
    IF answer = "available"
    THEN [res |-> "returned", timer |-> tm, slept |-> 0]
    ELSE LET t2 == IF answer \in {"not-found", "pending"} THEN tm + interval ELSE tm
             sl == IF answer \in {"not-found", "pending"} THEN 1 ELSE 0
         IN  [res |-> IF t2 >= tmo THEN "abort" ELSE "polling",
              timer |-> t2, slept |-> sl]

(* The mutant of the wait_deregister steps: the timeout returns success. *)
wait_deregister_step_no_raise(n, tm, interval, tmo) ==
    IF n = 0
    THEN [res |-> "returned", timer |-> tm, slept |-> 0]
    ELSE [res |-> IF tm + interval >= tmo THEN "returned" ELSE "polling",
          timer |-> tm + interval, slept |-> 1]

(* fabfile.py wait_deregister, one turn of the loop for a response that
   lists n images of the name. *)
fab_wait_deregister_step(n, tm, interval, tmo) ==
    IF n = 0
    THEN [res |-> "returned", timer |-> tm, slept |-> 0]
    ELSE [res |-> IF tm + interval >= tmo THEN "MyTimeoutError" ELSE "polling",
          timer |-> tm + interval, slept |-> 1]

(* update_ami.py wait_deregister, one turn of the loop. *)
upd_wait_deregister_step(n, tm, interval, tmo) ==
    IF n = 0
    THEN [res |-> "returned", timer |-> tm, slept |-> 0]
    ELSE [res |-> IF tm + interval >= tmo THEN "MyTimeoutError" ELSE "polling",
          timer |-> tm + interval, slept |-> 1]

(* The numbers of images a describe_images by name may list. *)
FoundCounts == 0..2

PollApply(step, entry) ==
    /\ pollRes' = step.res
    /\ timer' = step.timer
    /\ pollSleeps' = pollSleeps + step.slept
    /\ pollLog' = Append(pollLog, entry)
    /\ UNCHANGED <<pollFn, timeout, runinterval>>

(* wait_copy: one describe_images call and the turn of the loop it decides. *)
PollWaitCopy ==
    /\ pollFn = "wait_copy"
    /\ pollRes = "polling"
    /\ Len(pollLog) < MaxPolls
    /\ \E answer \in CopyAnswers :
         PollApply(wait_copy_step(answer, timer, runinterval, timeout), answer)
    /\ UNCHANGED <<snapVars, imgVars, locVars, flowVars, mainVars, waitVars, retryVars>>

(* fabfile.py wait_deregister: one describe call and its turn of the loop. *)
PollWaitDeregisterFab ==
    /\ pollFn = "fab.wait_deregister"
    /\ pollRes = "polling"
    /\ Len(pollLog) < MaxPolls
    /\ \E n \in FoundCounts :
         PollApply(fab_wait_deregister_step(n, timer, runinterval, timeout),
                   IF n = 0 THEN "not-found" ELSE "found")
    /\ UNCHANGED <<snapVars, imgVars, locVars, flowVars, mainVars, waitVars, retryVars>>

(* update_ami.py wait_deregister: one describe call and its turn of the loop. *)
PollWaitDeregisterUpd ==
    /\ pollFn = "update_ami.wait_deregister"
    /\ pollRes = "polling"
    /\ Len(pollLog) < MaxPolls
    /\ \E n \in FoundCounts :
         PollApply(upd_wait_deregister_step(n, timer, runinterval, timeout),
                   IF n = 0 THEN "not-found" ELSE "found")
    /\ UNCHANGED <<snapVars, imgVars, locVars, flowVars, mainVars, waitVars, retryVars>>

PollIdle ==
    /\ pollFn = "none" /\ timeout = 0 /\ runinterval = 0 /\ timer = 0
    /\ pollSleeps = 0 /\ pollLog = <<>> /\ pollRes = "idle"

(* A loop is entered with timer = 0 (lines 373, 411; update_ami.py 284). *)
InitPoll ==
    /\ pollFn \in {"wait_copy", "fab.wait_deregister", "update_ami.wait_deregister"}
    /\ timeout \in 0..MaxTimeout
    /\ runinterval \in 1..MaxInterval
    /\ timer = 0
    /\ pollSleeps = 0
    /\ pollLog = <<>>
    /\ pollRes = "polling"

----------------------------------------------------------------------------
(* The locators of fabfile.py and update_ami.py.                           *)

(* `for image in images: if search_name == image.name: return image.id`,
   from position i on; the abort when the loop ends. *)
RECURSIVE first_named(_, _, _, _)
first_named(imgs, i, name, exit) ==
    IF i > Len(imgs) THEN [exit |-> exit]
    ELSE IF name = imgs[i].name THEN [ret |-> imgs[i].id]
         ELSE first_named(imgs, i + 1, name, exit)

(* The mutant of fab_find_ami_id: the owner filter is lost. *)
fab_find_ami_id_any_owner(imgs, name) == first_named(imgs, 1, name, "abort")

(* fabfile.py find_ami_id. *)
fab_find_ami_id(imgs, name) == first_named(OwnedBy(imgs, Self), 1, name, "abort")

(* update_ami.py find_ami_id. *)
upd_find_ami_id(imgs, name) == first_named(OwnedBy(imgs, Self), 1, name, "SystemExit")

(* `for tag in instance.tags: if tag['Key'] == 'Name' and tag['Value'] == name`:
   whether some tag of the list, from position i on, is that Name tag. *)
RECURSIVE name_tag_matches(_, _, _)
name_tag_matches(tags, i, name) ==
    IF i > Len(tags) THEN FALSE
    ELSE IF tags[i].Key = "Name" /\ tags[i].Value = name THEN TRUE
         ELSE name_tag_matches(tags, i + 1, name)

(* fabfile.py lines 235-244: the instances whose Name tag is search_name. *)
candidates_of(insts, name) ==
    SelectSeq(insts, LAMBDA inst : name_tag_matches(inst.tags, 1, name))

(* fabfile.py lines 246-255: the first running candidate, or the abort. *)
RECURSIVE first_running(_, _)
first_running(cands, i) ==
    IF i > Len(cands) THEN [exit |-> "abort"]
    ELSE IF cands[i].state = "running" THEN [ret |-> cands[i].id]
         ELSE first_running(cands, i + 1)

(* fabfile.py find_instance_id. *)
fab_find_instance_id(insts, name) ==
    first_running(candidates_of(OwnedBy(insts, Self), name), 1)

(* update_ami.py find_instance_id: the first owned instance with the Name
   tag; the run state is not read. *)
RECURSIVE first_tagged(_, _, _)
first_tagged(insts, i, name) ==
    IF i > Len(insts) THEN [exit |-> "SystemExit"]
    ELSE IF name_tag_matches(insts[i].tags, 1, name) THEN [ret |-> insts[i].id]
         ELSE first_tagged(insts, i + 1, name)

upd_find_instance_id(insts, name) == first_tagged(OwnedBy(insts, Self), 1, name)

(* Host names: the query, and a name the query is only a part of. *)
HostNames == {<<"h">>, <<"h", "2">>}
RunStates == {"running", "stopped"}
InstanceTagLists == {<<>>, <<OtherTag>>}
                    \cup {<<NameTag(n)>> : n \in HostNames}
                    \cup {<<OtherTag, NameTag(n)>> : n \in HostNames}

NotCalled == [state |-> "not-called"]

LocFabFindAmi ==
    /\ locFn = "fab.find_ami_id"
    /\ locRes = NotCalled
    /\ locRes' = fab_find_ami_id(resources, search_name)
    /\ UNCHANGED <<locFn, resources, search_name>>
    /\ UNCHANGED <<snapVars, imgVars, pollVars, flowVars, mainVars, waitVars, retryVars>>

LocUpdFindAmi ==
    /\ locFn = "update_ami.find_ami_id"
    /\ locRes = NotCalled
    /\ locRes' = upd_find_ami_id(resources, search_name)
    /\ UNCHANGED <<locFn, resources, search_name>>
    /\ UNCHANGED <<snapVars, imgVars, pollVars, flowVars, mainVars, waitVars, retryVars>>

LocFabFindInstance ==
    /\ locFn = "fab.find_instance_id"
    /\ locRes = NotCalled
    /\ locRes' = fab_find_instance_id(resources, search_name)
    /\ UNCHANGED <<locFn, resources, search_name>>
    /\ UNCHANGED <<snapVars, imgVars, pollVars, flowVars, mainVars, waitVars, retryVars>>

LocUpdFindInstance ==
    /\ locFn = "update_ami.find_instance_id"
    /\ locRes = NotCalled
    /\ locRes' = upd_find_instance_id(resources, search_name)
    /\ UNCHANGED <<locFn, resources, search_name>>
    /\ UNCHANGED <<snapVars, imgVars, pollVars, flowVars, mainVars, waitVars, retryVars>>

LocIdle ==
    /\ locFn = "none" /\ resources = <<>> /\ search_name = <<>>
    /\ locRes = [state |-> "idle"]

InitLoc ==
    /\ locFn \in {"fab.find_ami_id", "update_ami.find_ami_id",
                  "fab.find_instance_id", "update_ami.find_instance_id"}
    /\ \E n \in 0..MaxResources :
         IF locFn \in {"fab.find_ami_id", "update_ami.find_ami_id"}
         THEN \E attr \in [1..n -> [owner : Accounts, name : HostNames]] :
                resources = [i \in 1..n |->
                    [id |-> i, owner |-> attr[i].owner, name |-> attr[i].name]]
         ELSE \E attr \in [1..n -> [owner : Accounts, tags : InstanceTagLists,
                                    state : RunStates]] :
                resources = [i \in 1..n |->
                    [id |-> i, owner |-> attr[i].owner, tags |-> attr[i].tags,
                     state |-> attr[i].state]]
    /\ search_name \in HostNames
    /\ locRes = NotCalled

----------------------------------------------------------------------------
(* The continuity store of fabfile.py: files under /tmp.                   *)

(* str.rstrip(chars). *)
RECURSIVE Rstrip(_, _)
Rstrip(str, chars) ==
    IF str # <<>> /\ str[Len(str)] \in chars
    THEN Rstrip(SubSeq(str, 1, Len(str) - 1), chars)
    ELSE str

RECURSIVE Lstrip(_, _)
Lstrip(str, chars) ==
    IF str # <<>> /\ str[1] \in chars THEN Lstrip(Tail(str), chars) ELSE str

(* str.strip(): white space is removed at both ends. The strings of the
   model are over the code points 1 to 255; of these str.isspace() holds
   for space, tab, line feed, vertical tab (0x0b), form feed, carriage
   return, the separators 0x1c to 0x1f, next line (0x85) and the no-break
   space (0xa0). *)
WhiteSpace ==
    {" ", "\t", "\n", "", "\f", "\r", "", "", "", "",
     "", " "}
Strip(str) == Lstrip(Rstrip(str, WhiteSpace), WhiteSpace)

(* fh.readlines() of a text file: "\r\n" and "\r" read as "\n", and a line
   ends after each "\n". cur is the line being read. *)
RECURSIVE ReadLinesFrom(_, _, _)
ReadLinesFrom(content, i, cur) ==
    IF i > Len(content) THEN (IF cur = <<>> THEN <<>> ELSE <<cur>>)
    ELSE IF content[i] = "\r" /\ i < Len(content) /\ content[i + 1] = "\n"
         THEN ReadLinesFrom(content, i + 1, cur)
         ELSE IF content[i] \in {"\n", "\r"}
              THEN <<Append(cur, "\n")>> \o ReadLinesFrom(content, i + 1, <<>>)
              ELSE ReadLinesFrom(content, i + 1, Append(cur, content[i]))

ReadLines(content) == ReadLinesFrom(content, 1, <<>>)

(* Line 349: `[item.rstrip('\r,\n') for item in ids]`. *)
StoredIds(ids) == [i \in 1..Len(ids) |-> Rstrip(ids[i], {"\r", ",", "\n"})]

(* Lines 358-359: every entry is written followed by "\n". *)
RECURSIVE FileContent(_)
FileContent(ids) ==
    IF ids = <<>> THEN <<>>
    ELSE ids[1] \o <<"\n">> \o FileContent(Tail(ids))

(* Lines 330-337: the lines of the file, each stripped. *)
RetrievedIds(content) ==
    LET lines == ReadLines(content)
    IN  [i \in 1..Len(lines) |-> Strip(lines[i])]

(* The two categories main stores, and "{}_{}".format(cookie, category). *)
LoadBalancer == <<"L", "o", "a", "d", "_", "B", "a", "l", "a", "n", "c", "e", "r">>
TargetGroup == <<"T", "a", "r", "g", "e", "t", "_", "G", "r", "o", "u", "p">>
FileName(ck, category) == ck \o <<"_">> \o category

DirIds == 1..MaxDirs
NoDir == [exists |-> FALSE, files |-> {}]

(* The directories of /tmp that hold a file of that name (find_file). *)
DirsHolding(fs, name) ==
    {d \in DirIds : fs[d].exists /\ \E f \in fs[d].files : f.name = name}

(* mkdtemp: a directory that does not exist yet. *)
FreeDirs(fs) == {d \in DirIds : ~fs[d].exists}
NewDir(fs) == CHOOSE d \in FreeDirs(fs) : \A e \in FreeDirs(fs) : d <= e

(* store_to_disk: a new directory with the one file in it. *)
store_to_disk(fs, category, ids, ck) ==
    [fs EXCEPT ![NewDir(fs)] =
        [exists |-> TRUE,
         files |-> {[name |-> FileName(ck, category),
                     content |-> FileContent(StoredIds(ids))]}]]

(* retrieve_from_disk on the file found in directory d. *)
retrieve_from_disk(fs, d, category, ck) ==
    LET f == CHOOSE g \in fs[d].files : g.name = FileName(ck, category)
    IN  RetrievedIds(f.content)

(* The orders in which a set may be iterated. *)
RECURSIVE Perms(_)
Perms(S) ==
    IF S = {} THEN {<<>>}
    ELSE UNION {{<<x>> \o rest : rest \in Perms(S \ {x})} : x \in S}

(* clean_up line 36: `if cookie in f`. *)
CookieMatches(ck, name) == Contains(ck, name)

(* clean_up lines 34-39: the directories that hold a file to delete. *)
dirs_to_delete(fs, ck) ==
    {d \in DirIds : fs[d].exists /\ \E f \in fs[d].files : CookieMatches(ck, f.name)}

(* clean_up lines 40-41: every matching file is unlinked. *)
AfterUnlink(fs, ck) ==
    [d \in DirIds |->
        [exists |-> fs[d].exists,
         files |-> {f \in fs[d].files : ~CookieMatches(ck, f.name)}]]

(* clean_up lines 42-43: rmdir of each parent, in the order the set
   dirs_to_delete is iterated; it raises on a directory that still holds a
   file, and the directories after it in that order are left in place. *)
CleanUpFails(fs, ck) ==
    \E d \in dirs_to_delete(fs, ck) : AfterUnlink(fs, ck)[d].files # {}

(* The number of rmdir calls that succeed when the parents are visited in
   that order. *)
RECURSIVE RemovedPrefix(_, _, _)
RemovedPrefix(fs, ck, order) ==
    IF order = <<>> \/ AfterUnlink(fs, ck)[order[1]].files # {} THEN 0
    ELSE 1 + RemovedPrefix(fs, ck, Tail(order))

AfterCleanUp(fs, ck, order) ==
    LET unlinked == AfterUnlink(fs, ck)
        removed == RemovedPrefix(fs, ck, order)
    IN  [d \in DirIds |->
            IF \E i \in 1..removed : order[i] = d THEN NoDir ELSE unlinked[d]]

(* The directories of a set in ascending order. *)
RECURSIVE Ascending(_)
Ascending(S) ==
    IF S = {} THEN <<>>
    ELSE LET m == CHOOSE x \in S : \A y \in S : x <= y
         IN  <<m>> \o Ascending(S \ {m})

(* The orders in which the loop of line 42 may visit the parents. What the
   loop leaves behind depends only on which emptied parents come before the
   first parent that still holds a file: for each set of emptied parents one
   order with just these before it stands for all such orders. When every
   parent has been emptied the loop removes them all whatever the order. *)
CleanUpOrders(fs, ck) ==
    LET parents == dirs_to_delete(fs, ck)
        emptied == {d \in parents : AfterUnlink(fs, ck)[d].files = {}}
    IN  IF CleanUpFails(fs, ck)
        THEN {Ascending(first) \o Ascending(parents \ emptied)
                 \o Ascending(emptied \ first) : first \in SUBSET emptied}
        ELSE {Ascending(parents)}

----------------------------------------------------------------------------
(* The environment of the workflows.                                       *)

(* The target host: the fqn argument of fabfile.py main, and the fqdn
   argument of update_ami.py. *)
Fqn == <<"h">>
Fqdn == <<"h", ".", "x">>

(* "{}_CURRENT".format(name) and "{}_TMP".format(name). *)
CurrentName(name) == name \o <<"_", "C", "U", "R", "R", "E", "N", "T">>
TmpName(name) == name \o <<"_", "T", "M", "P">>

(* The build cookies: one is a part of the other. *)
Cookies == {<<"7">>, <<"1", "7">>}

(* The load balancers and the target groups of the account. *)
ELBNames == {<<"a">>, <<"b">>}
TargetGroupArns == {<<"t">>}

(* The TIMEOUT value of the runs: both polls of wait_deregister get a
   second turn (lines 403 of fabfile.py and 360 of update_ami.py). *)
WorkflowTimeouts == {16}
FabRunInterval == 8
UpdRunInterval == 15

(* The ends of a run. *)
Terminal == {"done", "abort", "SystemExit", "ClientError", "OSError",
             "MyTimeoutError", "UnboundLocalError", "AttributeError",
             "TypeError"}

Call(op, arg) == [op |-> op, arg |-> arg]

NamedImages(imgs, name) == SelectSeq(imgs, LAMBDA im : im.name = name)

NoEntries == [elb |-> {}, tg |-> {}]

(* The cloud forgets an image whose deregistration was accepted. *)
CloudForget ==
    /\ \E i \in 1..Len(cloud) :
         /\ cloud[i].state = "deregistering"
         /\ cloud' = SubSeq(cloud, 1, i - 1) \o SubSeq(cloud, i + 1, Len(cloud))
    /\ UNCHANGED <<imageSeq, instances, elbInstances, tgTargets, tmp>>
    /\ UNCHANGED <<runVars, localVars, ghostVars>>
    /\ UNCHANGED <<snapVars, imgVars, pollVars, locVars, mainVars, waitVars, retryVars,
                   testVars, sshVars>>

(* The cloud completes the copy or the creation of an image. *)
CloudImageAvailable ==
    /\ \E i \in 1..Len(cloud) :
         /\ cloud[i].state = "pending"
         /\ cloud' = [cloud EXCEPT ![i].state = "available"]
    /\ UNCHANGED <<imageSeq, instances, elbInstances, tgTargets, tmp>>
    /\ UNCHANGED <<runVars, localVars, ghostVars>>
    /\ UNCHANGED <<snapVars, imgVars, pollVars, locVars, mainVars, waitVars, retryVars,
                   testVars, sshVars>>

----------------------------------------------------------------------------
(* fabfile.py: main.                                                       *)

(* A run of `fab main:<operation>,<fqn>` begins (lines 448-453). *)
FabStart ==
    /\ script = "fab"
    /\ wpc \in {"idle"} \cup Terminal
    /\ runs < MaxRuns
    /\ runs' = runs + 1
    /\ operation' \in {"predeploy", "postdeploy"}
    /\ cookie' \in Cookies
    /\ wpc' = "find_instance"
    /\ current_instance_id' = 0
    /\ current_image_id' = 0
    /\ current_elb_names' = {}
    /\ current_target_group_arns' = {}
    /\ elb_names' = <<>>
    /\ target_group_arns' = <<>>
    /\ wtimer' = 0
    /\ callLog' = <<>>
    /\ sawAbsent' = FALSE
    /\ UNCHANGED <<cloud, imageSeq, instances, elbInstances, tgTargets, tmp,
                   script, wtimeout, written, removedFrom>>
    /\ UNCHANGED <<snapVars, imgVars, pollVars, locVars, mainVars, waitVars, retryVars,
                   testVars, sshVars>>

(* Lines 457 and 490: find_instance_id(fqn). *)
FabFindInstance ==
    /\ script = "fab"
    /\ wpc = "find_instance"
    /\ LET r == fab_find_instance_id(instances, Fqn)
       IN  IF "ret" \in DOMAIN r
           THEN /\ current_instance_id' = r.ret
                /\ wpc' = IF operation = "predeploy" THEN "find_elbs"
                          ELSE "retrieve_elbs"
           ELSE /\ wpc' = "abort"
                /\ UNCHANGED current_instance_id
    /\ UNCHANGED <<cloud, imageSeq, instances, elbInstances, tgTargets, tmp,
                   script, operation, cookie, runs, wtimeout, current_image_id,
                   current_elb_names, current_target_group_arns, elb_names,
                   target_group_arns, wtimer, callLog, sawAbsent,
                   written, removedFrom>>
    /\ UNCHANGED <<snapVars, imgVars, pollVars, locVars, mainVars, waitVars, retryVars,
                   testVars, sshVars>>

(* Line 458: find_elbs, the classic load balancers that list the instance. *)
FabFindElbs ==
    /\ script = "fab"
    /\ wpc = "find_elbs"
    /\ current_elb_names' =
          {n \in ELBNames : current_instance_id \in elbInstances[n]}
    /\ wpc' = "find_target_groups"
    /\ UNCHANGED <<cloud, imageSeq, instances, elbInstances, tgTargets, tmp,
                   script, operation, cookie, runs, wtimeout,
                   current_instance_id, current_image_id,
                   current_target_group_arns, elb_names, target_group_arns,
                   wtimer, callLog, sawAbsent, written, removedFrom>>
    /\ UNCHANGED <<snapVars, imgVars, pollVars, locVars, mainVars, waitVars, retryVars,
                   testVars, sshVars>>

(* Line 459: find_target_groups. *)
FabFindTargetGroups ==
    /\ script = "fab"
    /\ wpc = "find_target_groups"
    /\ current_target_group_arns' =
          {a \in TargetGroupArns : current_instance_id \in tgTargets[a]}
    /\ wpc' = "store_elbs"
    /\ UNCHANGED <<cloud, imageSeq, instances, elbInstances, tgTargets, tmp,
                   script, operation, cookie, runs, wtimeout,
                   current_instance_id, current_image_id, current_elb_names,
                   elb_names, target_group_arns, wtimer, callLog,
                   sawAbsent, written, removedFrom>>
    /\ UNCHANGED <<snapVars, imgVars, pollVars, locVars, mainVars, waitVars, retryVars,
                   testVars, sshVars>>

(* Lines 465-467: the load balancer names are stored, when there are any. *)
FabStoreElbs ==
    /\ script = "fab"
    /\ wpc = "store_elbs"
    /\ IF current_elb_names # {}
       THEN /\ \E ids \in Perms(current_elb_names) :
                 /\ tmp' = store_to_disk(tmp, LoadBalancer, ids, cookie)
                 /\ written' = [written EXCEPT ![cookie].elb =
                                   @ \cup {Range(StoredIds(ids))}]
       ELSE UNCHANGED <<tmp, written>>
    /\ wpc' = "store_target_groups"
    /\ UNCHANGED <<cloud, imageSeq, instances, elbInstances, tgTargets, script,
                   operation, cookie, runs, wtimeout, current_instance_id,
                   current_image_id, current_elb_names,
                   current_target_group_arns, elb_names, target_group_arns,
                   wtimer, callLog, sawAbsent, removedFrom>>
    /\ UNCHANGED <<snapVars, imgVars, pollVars, locVars, mainVars, waitVars, retryVars,
                   testVars, sshVars>>

(* Lines 468-470: the target group arns are stored, when there are any. *)
FabStoreTargetGroups ==
    /\ script = "fab"
    /\ wpc = "store_target_groups"
    /\ IF current_target_group_arns # {}
       THEN /\ \E ids \in Perms(current_target_group_arns) :
                 /\ tmp' = store_to_disk(tmp, TargetGroup, ids, cookie)
                 /\ written' = [written EXCEPT ![cookie].tg =
                                   @ \cup {Range(StoredIds(ids))}]
       ELSE UNCHANGED <<tmp, written>>
    /\ wpc' = "deregister_from_elbs"
    /\ UNCHANGED <<cloud, imageSeq, instances, elbInstances, tgTargets, script,
                   operation, cookie, runs, wtimeout, current_instance_id,
                   current_image_id, current_elb_names,
                   current_target_group_arns, elb_names, target_group_arns,
                   wtimer, callLog, sawAbsent, removedFrom>>
    /\ UNCHANGED <<snapVars, imgVars, pollVars, locVars, mainVars, waitVars, retryVars,
                   testVars, sshVars>>

(* The calls of a loop over names that succeed before one raises: each
   call of the API may raise (ClientError), and the calls before it stand. *)
Succeeded(names) == {SubSeq(names, 1, k) : k \in 0..Len(names)}

(* Lines 473-474: deregister_from_elbs, one call per load balancer, in the
   order the set is iterated. *)
FabDeregisterFromElbs ==
    /\ script = "fab"
    /\ wpc = "deregister_from_elbs"
    /\ \E order \in Perms(current_elb_names) :
         \E gone \in Succeeded(order) :
           /\ callLog' = callLog \o
                 [i \in 1..Len(gone) |->
                     Call("deregister_instances_from_load_balancer", gone[i])]
           /\ elbInstances' =
                 [n \in ELBNames |->
                     IF n \in Range(gone)
                     THEN elbInstances[n] \ {current_instance_id}
                     ELSE elbInstances[n]]
           /\ removedFrom' = [removedFrom EXCEPT ![cookie].elb = @ \cup Range(gone)]
           /\ wpc' = IF gone = order THEN "deregister_from_target_groups"
                     ELSE "ClientError"
    /\ UNCHANGED <<cloud, imageSeq, instances, tgTargets, tmp, script,
                   operation, cookie, runs, wtimeout, current_instance_id,
                   current_image_id, current_elb_names,
                   current_target_group_arns, elb_names, target_group_arns,
                   wtimer, sawAbsent, written>>
    /\ UNCHANGED <<snapVars, imgVars, pollVars, locVars, mainVars, waitVars, retryVars,
                   testVars, sshVars>>

(* Lines 476-478: deregister_from_target_groups, one call per group. *)
FabDeregisterFromTargetGroups ==
    /\ script = "fab"
    /\ wpc = "deregister_from_target_groups"
    /\ \E order \in Perms(current_target_group_arns) :
         \E gone \in Succeeded(order) :
           /\ callLog' = callLog \o
                 [i \in 1..Len(gone) |-> Call("deregister_targets", gone[i])]
           /\ tgTargets' =
                 [a \in TargetGroupArns |->
                     IF a \in Range(gone)
                     THEN tgTargets[a] \ {current_instance_id} ELSE tgTargets[a]]
           /\ removedFrom' = [removedFrom EXCEPT ![cookie].tg = @ \cup Range(gone)]
           /\ wpc' = IF gone = order THEN "find_ami" ELSE "ClientError"
    /\ UNCHANGED <<cloud, imageSeq, instances, elbInstances, tmp, script,
                   operation, cookie, runs, wtimeout, current_instance_id,
                   current_image_id, current_elb_names,
                   current_target_group_arns, elb_names, target_group_arns,
                   wtimer, sawAbsent, written>>
    /\ UNCHANGED <<snapVars, imgVars, pollVars, locVars, mainVars, waitVars, retryVars,
                   testVars, sshVars>>

(* Line 481: find_ami_id(fqn_CURRENT). *)
FabFindAmi ==
    /\ script = "fab"
    /\ wpc = "find_ami"
    /\ LET r == fab_find_ami_id(cloud, CurrentName(Fqn))
       IN  IF "ret" \in DOMAIN r
           THEN /\ current_image_id' = r.ret
                /\ wpc' = "copy_ami"
           ELSE /\ wpc' = "abort"
                /\ UNCHANGED current_image_id
    /\ UNCHANGED <<cloud, imageSeq, instances, elbInstances, tgTargets, tmp,
                   script, operation, cookie, runs, wtimeout,
                   current_instance_id, current_elb_names,
                   current_target_group_arns, elb_names, target_group_arns,
                   wtimer, callLog, sawAbsent, written, removedFrom>>
    /\ UNCHANGED <<snapVars, imgVars, pollVars, locVars, mainVars, waitVars, retryVars,
                   testVars, sshVars>>

(* Line 482: copy_ami; the copy_image call answers an image id or raises. *)
FabCopyAmi ==
    /\ script = "fab"
    /\ wpc = "copy_ami"
    /\ \E ok \in BOOLEAN :
         IF ok
         THEN /\ cloud' = Append(cloud, [id |-> imageSeq + 1, owner |-> Self,
                                         name |-> TmpName(Fqn), state |-> "pending"])
              /\ imageSeq' = imageSeq + 1
              /\ callLog' = Append(callLog, Call("copy_image", TmpName(Fqn)))
              /\ wpc' = "deregister_ami"
         ELSE /\ wpc' = "ClientError"
              /\ UNCHANGED <<cloud, imageSeq, callLog>>
    /\ UNCHANGED <<instances, elbInstances, tgTargets, tmp, script, operation,
                   cookie, runs, wtimeout, current_instance_id,
                   current_image_id, current_elb_names,
                   current_target_group_arns, elb_names, target_group_arns,
                   wtimer, sawAbsent, written, removedFrom>>
    /\ UNCHANGED <<snapVars, imgVars, pollVars, locVars, mainVars, waitVars, retryVars,
                   testVars, sshVars>>

(* The mutant of FabDeregisterAmi: the status of the response is not looked
   at and the poll follows. *)
FabDeregisterAmiAnyStatus ==
    /\ script = "fab"
    /\ wpc = "deregister_ami"
    /\ \E http_code \in HttpCodes :
         IF http_code = 200
         THEN /\ cloud' = [i \in 1..Len(cloud) |->
                             IF cloud[i].id = current_image_id
                             THEN [cloud[i] EXCEPT !.state = "deregistering"]
                             ELSE cloud[i]]
              /\ callLog' = Append(callLog, Call("deregister_image", current_image_id))
              /\ wpc' = "wait_deregister"
         ELSE /\ callLog' = Append(callLog, Call("deregister_image refused",
                                                  current_image_id))
              /\ wpc' = "wait_deregister"
              /\ UNCHANGED cloud
    /\ UNCHANGED <<imageSeq, instances, elbInstances, tgTargets, tmp, script,
                   operation, cookie, runs, wtimeout, current_instance_id,
                   current_image_id, current_elb_names,
                   current_target_group_arns, elb_names, target_group_arns,
                   wtimer, sawAbsent, written, removedFrom>>
    /\ UNCHANGED <<snapVars, imgVars, pollVars, locVars, mainVars, waitVars, retryVars,
                   testVars, sshVars>>

(* Line 485: deregister_ami; any status but 200 aborts. *)
FabDeregisterAmi ==
    /\ script = "fab"
    /\ wpc = "deregister_ami"
    /\ \E http_code \in HttpCodes :
         IF http_code = 200
         THEN /\ cloud' = [i \in 1..Len(cloud) |->
                             IF cloud[i].id = current_image_id
                             THEN [cloud[i] EXCEPT !.state = "deregistering"]
                             ELSE cloud[i]]
              /\ callLog' = Append(callLog, Call("deregister_image", current_image_id))
              /\ wpc' = "wait_deregister"
         ELSE /\ callLog' = Append(callLog, Call("deregister_image refused",
                                                  current_image_id))
              /\ wpc' = "abort"
              /\ UNCHANGED cloud
    /\ UNCHANGED <<imageSeq, instances, elbInstances, tgTargets, tmp, script,
                   operation, cookie, runs, wtimeout, current_instance_id,
                   current_image_id, current_elb_names,
                   current_target_group_arns, elb_names, target_group_arns,
                   wtimer, sawAbsent, written, removedFrom>>
    /\ UNCHANGED <<snapVars, imgVars, pollVars, locVars, mainVars, waitVars, retryVars,
                   testVars, sshVars>>

(* Line 486: one turn of wait_deregister(fqn_CURRENT). *)
FabWaitDeregister ==
    /\ script = "fab"
    /\ wpc = "wait_deregister"
    /\ LET n == Len(NamedImages(cloud, CurrentName(Fqn)))
           step == fab_wait_deregister_step(n, wtimer, FabRunInterval, wtimeout)
       IN  /\ wtimer' = step.timer
           /\ sawAbsent' = (sawAbsent \/ n = 0)
           /\ wpc' = IF step.res = "returned" THEN "done"
                     ELSE IF step.res = "polling" THEN "wait_deregister"
                     ELSE step.res
    /\ UNCHANGED <<cloud, imageSeq, instances, elbInstances, tgTargets, tmp,
                   script, operation, cookie, runs, wtimeout,
                   current_instance_id, current_image_id, current_elb_names,
                   current_target_group_arns, elb_names, target_group_arns,
                   callLog, written, removedFrom>>
    /\ UNCHANGED <<snapVars, imgVars, pollVars, locVars, mainVars, waitVars, retryVars,
                   testVars, sshVars>>

(* Lines 491-492: retrieve_from_disk of the first file found, or None. *)
FabRetrieveElbs ==
    /\ script = "fab"
    /\ wpc = "retrieve_elbs"
    /\ LET ds == DirsHolding(tmp, FileName(cookie, LoadBalancer))
       IN  IF ds = {} THEN elb_names' = <<>>
           ELSE \E d \in ds :
                  elb_names' = retrieve_from_disk(tmp, d, LoadBalancer, cookie)
    /\ wpc' = "retrieve_target_groups"
    /\ UNCHANGED <<cloud, imageSeq, instances, elbInstances, tgTargets, tmp,
                   script, operation, cookie, runs, wtimeout,
                   current_instance_id, current_image_id, current_elb_names,
                   current_target_group_arns, target_group_arns, wtimer,
                   callLog, sawAbsent, written, removedFrom>>
    /\ UNCHANGED <<snapVars, imgVars, pollVars, locVars, mainVars, waitVars, retryVars,
                   testVars, sshVars>>

(* Lines 493-494. *)
FabRetrieveTargetGroups ==
    /\ script = "fab"
    /\ wpc = "retrieve_target_groups"
    /\ LET ds == DirsHolding(tmp, FileName(cookie, TargetGroup))
       IN  IF ds = {} THEN target_group_arns' = <<>>
           ELSE \E d \in ds :
                  target_group_arns' = retrieve_from_disk(tmp, d, TargetGroup, cookie)
    /\ wpc' = "register_with_elbs"
    /\ UNCHANGED <<cloud, imageSeq, instances, elbInstances, tgTargets, tmp,
                   script, operation, cookie, runs, wtimeout,
                   current_instance_id, current_image_id, current_elb_names,
                   current_target_group_arns, elb_names, wtimer, callLog,
                   sawAbsent, written, removedFrom>>
    /\ UNCHANGED <<snapVars, imgVars, pollVars, locVars, mainVars, waitVars, retryVars,
                   testVars, sshVars>>

(* The loops of lines 291-297 and 308-313 call the API once per name, in
   order; a name the account does not have makes the call raise, after the
   calls on the names before it. The number of calls that can succeed: *)
RECURSIVE KnownPrefix(_, _)
KnownPrefix(names, known) ==
    IF names = <<>> \/ names[1] \notin known THEN 0
    ELSE 1 + KnownPrefix(Tail(names), known)

(* Lines 496-497: register_with_elbs, one call per name read back; any of
   the calls may raise, also one on a load balancer the account has. *)
FabRegisterWithElbs ==
    /\ script = "fab"
    /\ wpc = "register_with_elbs"
    /\ \E k \in 0..KnownPrefix(elb_names, ELBNames) :
           /\ callLog' = callLog \o
                  [i \in 1..k |->
                      Call("register_instances_with_load_balancer", elb_names[i])]
           /\ elbInstances' =
                  [n \in ELBNames |->
                      IF \E i \in 1..k : elb_names[i] = n
                      THEN elbInstances[n] \cup {current_instance_id}
                      ELSE elbInstances[n]]
           /\ wpc' = IF k = Len(elb_names) THEN "register_with_target_groups"
                     ELSE "ClientError"
    /\ UNCHANGED <<cloud, imageSeq, instances, tgTargets, tmp, script,
                   operation, cookie, runs, wtimeout, current_instance_id,
                   current_image_id, current_elb_names,
                   current_target_group_arns, elb_names, target_group_arns,
                   wtimer, sawAbsent, written, removedFrom>>
    /\ UNCHANGED <<snapVars, imgVars, pollVars, locVars, mainVars, waitVars, retryVars,
                   testVars, sshVars>>

(* Lines 498-499: register_with_target_groups. *)
FabRegisterWithTargetGroups ==
    /\ script = "fab"
    /\ wpc = "register_with_target_groups"
    /\ \E k \in 0..KnownPrefix(target_group_arns, TargetGroupArns) :
           /\ callLog' = callLog \o
                  [i \in 1..k |-> Call("register_targets", target_group_arns[i])]
           /\ tgTargets' =
                  [a \in TargetGroupArns |->
                      IF \E i \in 1..k : target_group_arns[i] = a
                      THEN tgTargets[a] \cup {current_instance_id}
                      ELSE tgTargets[a]]
           /\ wpc' = IF k = Len(target_group_arns) THEN "clean_up"
                     ELSE "ClientError"
    /\ UNCHANGED <<cloud, imageSeq, instances, elbInstances, tmp, script,
                   operation, cookie, runs, wtimeout, current_instance_id,
                   current_image_id, current_elb_names,
                   current_target_group_arns, elb_names, target_group_arns,
                   wtimer, sawAbsent, written, removedFrom>>
    /\ UNCHANGED <<snapVars, imgVars, pollVars, locVars, mainVars, waitVars, retryVars,
                   testVars, sshVars>>

(* Line 502: clean_up(cookie); a parent directory that is not empty makes
   rmdir raise, and the parents not yet visited stay. *)
FabCleanUp ==
    /\ script = "fab"
    /\ wpc = "clean_up"
    /\ \E order \in CleanUpOrders(tmp, cookie) :
         tmp' = AfterCleanUp(tmp, cookie, order)
    /\ wpc' = IF CleanUpFails(tmp, cookie) THEN "OSError" ELSE "create_ami"
    /\ written' = [written EXCEPT ![cookie] = NoEntries]
    /\ removedFrom' = [removedFrom EXCEPT ![cookie] = NoEntries]
    /\ UNCHANGED <<cloud, imageSeq, instances, elbInstances, tgTargets, script,
                   operation, cookie, runs, wtimeout, current_instance_id,
                   current_image_id, current_elb_names,
                   current_target_group_arns, elb_names, target_group_arns,
                   wtimer, callLog, sawAbsent>>
    /\ UNCHANGED <<snapVars, imgVars, pollVars, locVars, mainVars, waitVars, retryVars,
                   testVars, sshVars>>

(* Line 505: create_ami(fqn_CURRENT); create_image answers an id or raises. *)
FabCreateAmi ==
    /\ script = "fab"
    /\ wpc = "create_ami"
    /\ \E ok \in BOOLEAN :
         IF ok
         THEN /\ cloud' = Append(cloud, [id |-> imageSeq + 1, owner |-> Self,
                                         name |-> CurrentName(Fqn),
                                         state |-> "pending"])
              /\ imageSeq' = imageSeq + 1
              /\ callLog' = Append(callLog, Call("create_image", CurrentName(Fqn)))
              /\ wpc' = "done"
         ELSE /\ wpc' = "ClientError"
              /\ UNCHANGED <<cloud, imageSeq, callLog>>
    /\ UNCHANGED <<instances, elbInstances, tgTargets, tmp, script, operation,
                   cookie, runs, wtimeout, current_instance_id,
                   current_image_id, current_elb_names,
                   current_target_group_arns, elb_names, target_group_arns,
                   wtimer, sawAbsent, written, removedFrom>>
    /\ UNCHANGED <<snapVars, imgVars, pollVars, locVars, mainVars, waitVars, retryVars,
                   testVars, sshVars>>

(* fabfile.py: the task test (lines 508-706), a process of its own: it may
   run while a run of main is under way on the host.                       *)

(* str(getpid()) of a run of the task (line 625): a process id that is a
   part of both build cookies, one that is a part of one of them, and one
   that is a part of neither. *)
Pids == {<<"7">>, <<"1", "7">>, <<"2", "3">>}

(* Lines 624 and 627: the category and the lines the task stores. *)
UnitTest == <<"u", "n", "i", "t", "_", "t", "e", "s", "t">>
TestLines == <<<<"l", "o", "v", "e", "\n">>,
               <<"f", "a", "l", "a", "f", "e", "l", "\n">>>>

(* Lines 508-629: a run of `fab test` begins. `environ('PROFILE')` of line
   532 is a call of a mapping and raises when PROFILE is set; a check of
   lines 546-620 against the account of the profile may abort; else
   store_to_disk("unit_test", lines, pid) stores the file of the run. The
   calls of the cloud are dry runs or reads in the account of the profile. *)
FabTestStart ==
    /\ script = "fab"
    /\ tpc \in {"idle"} \cup Terminal
    /\ runs < MaxRuns
    /\ runs' = runs + 1
    /\ \E profile_set \in BOOLEAN, check_aborts \in BOOLEAN :
         IF profile_set
         THEN tpc' = "TypeError" /\ UNCHANGED <<pid, tmp>>
         ELSE IF check_aborts
         THEN tpc' = "abort" /\ UNCHANGED <<pid, tmp>>
         ELSE \E p \in Pids :
                /\ pid' = p
                /\ tmp' = store_to_disk(tmp, UnitTest, TestLines, p)
                /\ tpc' = "wait_copy"
    /\ UNCHANGED <<cloud, imageSeq, instances, elbInstances, tgTargets>>
    /\ UNCHANGED <<script, operation, cookie, wpc, wtimeout>>
    /\ UNCHANGED <<localVars, ghostVars>>
    /\ UNCHANGED <<snapVars, imgVars, pollVars, locVars, mainVars, waitVars, retryVars,
                   sshVars>>

(* Lines 631-661: wait_copy and wait_deregister sleep between their polls,
   then deregister_ami is called as a dry run; a check that fails aborts. *)
FabTestWaits ==
    /\ script = "fab"
    /\ tpc = "wait_copy"
    /\ \E check_aborts \in BOOLEAN :
         IF check_aborts THEN tpc' = "abort" /\ pid' = <<>>
         ELSE tpc' = "retrieve_from_disk" /\ UNCHANGED pid
    /\ UNCHANGED <<envVars, runVars, localVars, ghostVars>>
    /\ UNCHANGED <<snapVars, imgVars, pollVars, locVars, mainVars, waitVars, retryVars,
                   sshVars>>

(* Lines 673-687: `a, b = retrieve_from_disk("unit_test", pid)` reads the
   first file of the name that find_file comes upon; the assignment raises,
   and the run aborts, when no file is found or when the file does not hold
   two lines. What the two lines are does not end the run. *)
FabTestRetrieve ==
    /\ script = "fab"
    /\ tpc = "retrieve_from_disk"
    /\ LET ds == DirsHolding(tmp, FileName(pid, UnitTest))
       IN  IF ds = {} THEN tpc' = "abort" /\ pid' = <<>>
           ELSE \E d \in ds :
                  IF Len(retrieve_from_disk(tmp, d, UnitTest, pid)) = 2
                  THEN tpc' = "clean_up" /\ UNCHANGED pid
                  ELSE tpc' = "abort" /\ pid' = <<>>
    /\ UNCHANGED <<envVars, runVars, localVars, ghostVars>>
    /\ UNCHANGED <<snapVars, imgVars, pollVars, locVars, mainVars, waitVars, retryVars,
                   sshVars>>

(* Lines 700-706: clean_up(str(pid)); an exception of it aborts the run. *)
FabTestCleanUp ==
    /\ script = "fab"
    /\ tpc = "clean_up"
    /\ \E order \in CleanUpOrders(tmp, pid) :
         tmp' = AfterCleanUp(tmp, pid, order)
    /\ tpc' = IF CleanUpFails(tmp, pid) THEN "abort" ELSE "done"
    /\ pid' = <<>>
    /\ UNCHANGED <<cloud, imageSeq, instances, elbInstances, tgTargets>>
    /\ UNCHANGED <<runVars, localVars, ghostVars>>
    /\ UNCHANGED <<snapVars, imgVars, pollVars, locVars, mainVars, waitVars, retryVars,
                   sshVars>>

----------------------------------------------------------------------------
(* What the cloud may hold when a workflow starts: no image of the host,
   the current image, or also an image of another account with its name. *)
ImageOf(i, owner, name) ==
    [id |-> i, owner |-> owner, name |-> name, state |-> "available"]
CloudChoices ==
    {<<>>,
     <<ImageOf(1, Self, CurrentName(Fqn))>>,
     <<ImageOf(1, "other", CurrentName(Fqn)), ImageOf(2, Self, CurrentName(Fqn))>>}

(* The instances: none of the name, one running, a stopped one before it. *)
InstanceOf(i, name, state) ==
    [id |-> i, owner |-> Self, tags |-> <<NameTag(name)>>, state |-> state]
InstanceChoices ==
    {<<InstanceOf(1, <<"h", "2">>, "running")>>,
     <<InstanceOf(1, Fqn, "running")>>,
     <<InstanceOf(1, Fqn, "stopped"), InstanceOf(2, Fqn, "running")>>}

InstanceIds == {instances[i].id : i \in 1..Len(instances)}

FlowIdle ==
    /\ script = "none" /\ operation = "none" /\ cookie = <<>> /\ wpc = "off"
    /\ runs = 0 /\ wtimeout = 0 /\ cloud = <<>> /\ imageSeq = 0
    /\ instances = <<>> /\ elbInstances = <<>> /\ tgTargets = <<>> /\ tmp = <<>>
    /\ current_instance_id = 0 /\ current_image_id = 0
    /\ current_elb_names = {} /\ current_target_group_arns = {}
    /\ elb_names = <<>> /\ target_group_arns = <<>> /\ wtimer = 0
    /\ callLog = <<>> /\ sawAbsent = FALSE /\ written = <<>> /\ removedFrom = <<>>
    /\ tpc = "off" /\ pid = <<>> /\ fsIdx = 0

(* /tmp is the temporary directory of the host, which the scripts share
   with every other program: a directory of another program with two files,
   one of a name that has the cookie 7 in it and one of a name that has no
   cookie in it. *)
SharedDir ==
    [exists |-> TRUE,
     files |-> {[name |-> <<"s", "7">>, content |-> <<>>],
                [name |-> <<"s">>, content |-> <<>>]}]

(* /tmp before the first run: empty, or with the directory of another
   program in it. *)
TmpChoices ==
    {[d \in DirIds |-> NoDir],
     [d \in DirIds |-> IF d = 1 THEN SharedDir ELSE NoDir]}

(* The state before the first run: /tmp holds no continuity file. *)
InitFlow ==
    /\ operation = "none"
    /\ cookie = <<>>
    /\ wpc = "idle"
    /\ runs = 0
    /\ wtimeout \in WorkflowTimeouts
    /\ cloud \in CloudChoices
    /\ imageSeq = Len(cloud)
    /\ instances \in InstanceChoices
    /\ \E target \in InstanceIds :
         /\ elbInstances \in [ELBNames -> {{}, {target}}]
         /\ tgTargets \in [TargetGroupArns -> {{}, {target}}]
    /\ tmp \in TmpChoices
    /\ tpc = "idle"
    /\ pid = <<>>
    /\ fsIdx = 0
    /\ current_instance_id = 0
    /\ current_image_id = 0
    /\ current_elb_names = {}
    /\ current_target_group_arns = {}
    /\ elb_names = <<>>
    /\ target_group_arns = <<>>
    /\ wtimer = 0
    /\ callLog = <<>>
    /\ sawAbsent = FALSE
    /\ written = [k \in Cookies |-> NoEntries]
    /\ removedFrom = [k \in Cookies |-> NoEntries]

----------------------------------------------------------------------------
(* update_ami.py: main.                                                    *)

(* Lines 319-320: search(compile(r'(\w|-)+'), fqdn).group(), the first run
   of word characters and hyphens of fqdn. The pattern is a str pattern, so
   \w is the letters, the digits and other numeric characters of Unicode
   and the underscore; listed are those of the code points 1 to 255. Every
   other character ends the run. *)
Letters ==
    {"a", "b", "c", "d", "e", "f", "g", "h", "i", "j", "k", "l", "m",
     "n", "o", "p", "q", "r", "s", "t", "u", "v", "w", "x", "y", "z",
     "A", "B", "C", "D", "E", "F", "G", "H", "I", "J", "K", "L", "M",
     "N", "O", "P", "Q", "R", "S", "T", "U", "V", "W", "X", "Y", "Z",
     "ª", "µ", "º", "À", "Á", "Â", "Ã", "Ä", "Å", "Æ", "Ç", "È", "É",
     "Ê", "Ë", "Ì", "Í", "Î", "Ï", "Ð", "Ñ", "Ò", "Ó", "Ô", "Õ", "Ö",
     "Ø", "Ù", "Ú", "Û", "Ü", "Ý", "Þ", "ß", "à", "á", "â", "ã", "ä",
     "å", "æ", "ç", "è", "é", "ê", "ë", "ì", "í", "î", "ï", "ð", "ñ",
     "ò", "ó", "ô", "õ", "ö", "ø", "ù", "ú", "û", "ü", "ý", "þ", "ÿ"}
Digits ==
    {"0", "1", "2", "3", "4", "5", "6", "7", "8", "9",
     "²", "³", "¹", "¼", "½", "¾"}
WordChars == Letters \cup Digits \cup {"_", "-"}

RECURSIVE WordRun(_)
WordRun(str) ==
    IF str = <<>> \/ str[1] \notin WordChars THEN <<>>
    ELSE <<str[1]>> \o WordRun(Tail(str))

(* search() finds a match when fqdn holds a word character or a hyphen. *)
HasWordChar(fqdn) == \E i \in 1..Len(fqdn) : fqdn[i] \in WordChars

(* Line 320 on no match: search() returns None, and None.group() raises. *)
AttributeError == "AttributeError"

RECURSIVE FirstWordRun(_)
FirstWordRun(fqdn) ==
    IF fqdn = <<>> THEN <<>>
    ELSE IF fqdn[1] \in WordChars THEN WordRun(fqdn)
    ELSE FirstWordRun(Tail(fqdn))

HostnameOf(fqdn) ==
    IF HasWordChar(fqdn) THEN FirstWordRun(fqdn) ELSE AttributeError

hostname == HostnameOf(Fqdn)

(* Line 323. *)
filesystems == <<<<"/", "v", "a", "r", "/", "o", "p", "t">>>>

(* How sshclient.connect ends, and how one exec_command ends: it raises, or
   it is dispatched and then answers on stdout only, answers on stderr, or
   does not answer within the 8 seconds. *)
ConnectOutcomes == {"connected", "SSHException"}
ExecOutcomes == {"Exception", "clean", "stderr", "no-eof"}

(* The mutant of exec_raises: output on stderr is taken for a failure of
   the dispatch. *)
exec_raises_or_stderr(out) == out \in {"Exception", "stderr"}

(* `except Exception` around sshclient.exec_command (lines 180-183 and
   228-231). *)
exec_raises(out) == out = "Exception"

(* A remote command, with how its exec_command ended. *)
Command(op, arg, out) == [op |-> op, arg |-> arg, out |-> out]

SshConnectionFailed == Call("logger.error", "SSH connection failed.")
RemoteCommandFailed(out) == Command("logger.error", "Remote command failed.", out)

(* Lines 196-199 and 247-250: what is logged of a command that ran. *)
CommandLogged(out) ==
    Call("logger.info",
         IF out = "stderr" THEN "failed." ELSE "returned with no errors.")

(* start_or_stop_service up to its wait (lines 211-233): what the call
   issues and logs, in order. *)
ServiceCalls(action, conn, out) ==
    IF conn = "SSHException" THEN <<SshConnectionFailed>>
    ELSE IF exec_raises(out) THEN <<RemoteCommandFailed(out)>>
    ELSE <<Command("service", action, out)>>

ServiceExits(conn, out) == conn = "SSHException" \/ exec_raises(out)

(* freeze_or_unfreeze_filesystems: one turn of the loop of line 172 up to
   its wait (lines 173-179), for filesystem i. *)
FsCommand(action, i, out) ==
    IF exec_raises(out) THEN <<RemoteCommandFailed(out)>>
    ELSE <<Command("fsfreeze", <<action, filesystems[i]>>, out)>>

(* freeze_or_unfreeze_filesystems up to its first wait (lines 152-179). *)
FreezeCalls(action, conn, out) ==
    IF conn = "SSHException" THEN <<SshConnectionFailed>>
    ELSE IF filesystems = <<>> THEN <<>>
    ELSE FsCommand(action, 1, out)

(* The mutant of FreezeExits: a command that could not be dispatched does
   not end the run. *)
FreezeExitsOnConnectionOnly(conn, out) == conn = "SSHException"

FreezeExits(conn, out) ==
    conn = "SSHException" \/ (filesystems # <<>> /\ exec_raises(out))

(* The log once lines 191-198 and 245-252 have logged the outcome of the
   command the run was waiting for, which is its last entry. *)
AwaitedLogged == Append(callLog, CommandLogged(callLog[Len(callLog)].out))

(* The positions of a run in which a remote command has been dispatched and
   the run sleeps until the end of its output or the 8 seconds (lines
   182-189 and 236-243). *)
EofWaits == {"stop_service_wait", "freeze_wait", "unfreeze_wait",
             "start_service_wait"}

(* A run of `update_ami.py profile fqdn` begins (lines 302-350); line 320
   ends it when fqdn holds no word character. *)
UpdStart ==
    /\ script = "update_ami"
    /\ wpc \in {"idle"} \cup Terminal
    /\ runs < MaxRuns
    /\ runs' = runs + 1
    /\ operation' = "refresh"
    /\ wpc' = IF HasWordChar(Fqdn) THEN "find_ami" ELSE AttributeError
    /\ current_instance_id' = 0
    /\ current_image_id' = 0
    /\ wtimer' = 0
    /\ callLog' = <<>>
    /\ sawAbsent' = FALSE
    /\ UNCHANGED <<cloud, imageSeq, instances, elbInstances, tgTargets, tmp,
                   script, cookie, wtimeout, current_elb_names,
                   current_target_group_arns, elb_names, target_group_arns,
                   written, removedFrom>>
    /\ UNCHANGED <<snapVars, imgVars, pollVars, locVars, mainVars, waitVars, retryVars,
                   testVars, sshVars>>

(* Line 352: find_ami_id(hostname_CURRENT). *)
UpdFindAmi ==
    /\ script = "update_ami"
    /\ wpc = "find_ami"
    /\ LET r == upd_find_ami_id(cloud, CurrentName(hostname))
       IN  IF "ret" \in DOMAIN r
           THEN /\ current_image_id' = r.ret
                /\ wpc' = "copy_ami"
           ELSE /\ wpc' = r.exit
                /\ UNCHANGED current_image_id
    /\ UNCHANGED <<cloud, imageSeq, instances, elbInstances, tgTargets, tmp,
                   script, operation, cookie, runs, wtimeout,
                   current_instance_id, current_elb_names,
                   current_target_group_arns, elb_names, target_group_arns,
                   wtimer, callLog, sawAbsent, written, removedFrom>>
    /\ UNCHANGED <<snapVars, imgVars, pollVars, locVars, mainVars, waitVars, retryVars,
                   testVars, sshVars>>

(* Line 353: copy_ami (lines 34-53); copy_image answers an id or raises. *)
UpdCopyAmi ==
    /\ script = "update_ami"
    /\ wpc = "copy_ami"
    /\ \E ok \in BOOLEAN :
         IF ok
         THEN /\ cloud' = Append(cloud, [id |-> imageSeq + 1, owner |-> Self,
                                         name |-> TmpName(hostname),
                                         state |-> "pending"])
              /\ imageSeq' = imageSeq + 1
              /\ callLog' = Append(callLog, Call("copy_image", TmpName(hostname)))
              /\ wpc' = "deregister_ami"
         ELSE /\ wpc' = "ClientError"
              /\ UNCHANGED <<cloud, imageSeq, callLog>>
    /\ UNCHANGED <<instances, elbInstances, tgTargets, tmp, script, operation,
                   cookie, runs, wtimeout, current_instance_id,
                   current_image_id, current_elb_names,
                   current_target_group_arns, elb_names, target_group_arns,
                   wtimer, sawAbsent, written, removedFrom>>
    /\ UNCHANGED <<snapVars, imgVars, pollVars, locVars, mainVars, waitVars, retryVars,
                   testVars, sshVars>>

(* Line 355: deregister_ami (lines 83-99); any status but 200 raises SystemExit. *)
UpdDeregisterAmi ==
    /\ script = "update_ami"
    /\ wpc = "deregister_ami"
    /\ \E http_code \in HttpCodes :
         IF http_code = 200
         THEN /\ cloud' = [i \in 1..Len(cloud) |->
                             IF cloud[i].id = current_image_id
                             THEN [cloud[i] EXCEPT !.state = "deregistering"]
                             ELSE cloud[i]]
              /\ callLog' = Append(callLog, Call("deregister_image", current_image_id))
              /\ wpc' = "wait_deregister"
         ELSE /\ callLog' = Append(callLog, Call("deregister_image refused",
                                                  current_image_id))
              /\ wpc' = "SystemExit"
              /\ UNCHANGED cloud
    /\ UNCHANGED <<imageSeq, instances, elbInstances, tgTargets, tmp, script,
                   operation, cookie, runs, wtimeout, current_instance_id,
                   current_image_id, current_elb_names,
                   current_target_group_arns, elb_names, target_group_arns,
                   wtimer, sawAbsent, written, removedFrom>>
    /\ UNCHANGED <<snapVars, imgVars, pollVars, locVars, mainVars, waitVars, retryVars,
                   testVars, sshVars>>

(* Lines 356-360: one turn of wait_deregister(hostname_CURRENT, runinterval=15). *)
UpdWaitDeregister ==
    /\ script = "update_ami"
    /\ wpc = "wait_deregister"
    /\ LET n == Len(NamedImages(cloud, CurrentName(hostname)))
           step == upd_wait_deregister_step(n, wtimer, UpdRunInterval, wtimeout)
       IN  /\ wtimer' = step.timer
           /\ sawAbsent' = (sawAbsent \/ n = 0)
           /\ wpc' = IF step.res = "returned" THEN "find_instance"
                     ELSE IF step.res = "polling" THEN "wait_deregister"
                     ELSE step.res
    /\ UNCHANGED <<cloud, imageSeq, instances, elbInstances, tgTargets, tmp,
                   script, operation, cookie, runs, wtimeout,
                   current_instance_id, current_image_id, current_elb_names,
                   current_target_group_arns, elb_names, target_group_arns,
                   callLog, written, removedFrom>>
    /\ UNCHANGED <<snapVars, imgVars, pollVars, locVars, mainVars, waitVars, retryVars,
                   testVars, sshVars>>

(* Line 362: find_instance_id(hostname). *)
UpdFindInstance ==
    /\ script = "update_ami"
    /\ wpc = "find_instance"
    /\ LET r == upd_find_instance_id(instances, hostname)
       IN  IF "ret" \in DOMAIN r
           THEN /\ current_instance_id' = r.ret
                /\ wpc' = "validate_user"
           ELSE /\ wpc' = r.exit
                /\ UNCHANGED current_instance_id
    /\ UNCHANGED <<cloud, imageSeq, instances, elbInstances, tgTargets, tmp,
                   script, operation, cookie, runs, wtimeout, current_image_id,
                   current_elb_names, current_target_group_arns, elb_names,
                   target_group_arns, wtimer, callLog, sawAbsent, written,
                   removedFrom>>
    /\ UNCHANGED <<snapVars, imgVars, pollVars, locVars, mainVars, waitVars, retryVars,
                   testVars, sshVars>>

(* Line 268: what validate_user logs when getlogin() is another user. *)
WrongUser == Call("logger.error", "Script must be run as user.")

(* The mutant of UpdValidateUser: the mismatch is logged and the run goes on. *)
UpdValidateUserLogOnly ==
    /\ script = "update_ami"
    /\ wpc = "validate_user"
    /\ \E same_user \in BOOLEAN :
         callLog' = IF same_user THEN callLog ELSE Append(callLog, WrongUser)
    /\ wpc' = "stop_service"
    /\ UNCHANGED <<cloud, imageSeq, instances, elbInstances, tgTargets, tmp,
                   script, operation, cookie, runs, wtimeout,
                   current_instance_id, current_image_id, current_elb_names,
                   current_target_group_arns, elb_names, target_group_arns,
                   wtimer, sawAbsent, written, removedFrom>>
    /\ UNCHANGED <<snapVars, imgVars, pollVars, locVars, mainVars, waitVars, retryVars,
                   testVars, sshVars>>

(* Line 363: validate_user (lines 265-269); getlogin() is the user or not. *)
UpdValidateUser ==
    /\ script = "update_ami"
    /\ wpc = "validate_user"
    /\ \E same_user \in BOOLEAN :
         /\ callLog' = IF same_user THEN callLog ELSE Append(callLog, WrongUser)
         /\ wpc' = IF same_user THEN "stop_service" ELSE "SystemExit"
    /\ UNCHANGED <<cloud, imageSeq, instances, elbInstances, tgTargets, tmp,
                   script, operation, cookie, runs, wtimeout,
                   current_instance_id, current_image_id, current_elb_names,
                   current_target_group_arns, elb_names, target_group_arns,
                   wtimer, sawAbsent, written, removedFrom>>
    /\ UNCHANGED <<snapVars, imgVars, pollVars, locVars, mainVars, waitVars, retryVars,
                   testVars, sshVars>>

(* Line 364: start_or_stop_service(..., 'stop', 'postgresql') up to its wait
   (lines 206-233). *)
UpdStopService ==
    /\ script = "update_ami"
    /\ wpc = "stop_service"
    /\ \E conn \in ConnectOutcomes, out \in ExecOutcomes :
         /\ callLog' = callLog \o ServiceCalls("stop", conn, out)
         /\ wpc' = IF ServiceExits(conn, out) THEN "SystemExit"
                   ELSE "stop_service_wait"
    /\ UNCHANGED <<cloud, imageSeq, instances, elbInstances, tgTargets, tmp,
                   script, operation, cookie, runs, wtimeout,
                   current_instance_id, current_image_id, current_elb_names,
                   current_target_group_arns, elb_names, target_group_arns,
                   wtimer, sawAbsent, written, removedFrom>>
    /\ UNCHANGED <<snapVars, imgVars, pollVars, locVars, mainVars, waitVars, retryVars,
                   testVars, sshVars>>

(* The wait of the stop command is over (lines 236-243): its outcome is logged
   (lines 245-257) and start_or_stop_service returns. *)
UpdStopServiceRead ==
    /\ script = "update_ami"
    /\ wpc = "stop_service_wait"
    /\ callLog' = AwaitedLogged
    /\ wpc' = "freeze"
    /\ UNCHANGED <<cloud, imageSeq, instances, elbInstances, tgTargets, tmp,
                   script, operation, cookie, runs, wtimeout,
                   current_instance_id, current_image_id, current_elb_names,
                   current_target_group_arns, elb_names, target_group_arns,
                   wtimer, sawAbsent, written, removedFrom>>
    /\ UNCHANGED <<snapVars, imgVars, pollVars, locVars, mainVars, waitVars, retryVars,
                   testVars, sshVars>>

(* Lines 365-366: freeze_or_unfreeze_filesystems(..., 'freeze') up to its
   first wait (lines 147-179). *)
UpdFreeze ==
    /\ script = "update_ami"
    /\ wpc = "freeze"
    /\ \E conn \in ConnectOutcomes, out \in ExecOutcomes :
         /\ callLog' = callLog \o FreezeCalls("freeze", conn, out)
         /\ IF FreezeExits(conn, out)
            THEN wpc' = "SystemExit" /\ fsIdx' = 0
            ELSE IF filesystems = <<>>
            THEN wpc' = "create_ami" /\ fsIdx' = 0
            ELSE wpc' = "freeze_wait" /\ fsIdx' = 1
    /\ UNCHANGED <<cloud, imageSeq, instances, elbInstances, tgTargets, tmp,
                   script, operation, cookie, runs, wtimeout,
                   current_instance_id, current_image_id, current_elb_names,
                   current_target_group_arns, elb_names, target_group_arns,
                   wtimer, sawAbsent, written, removedFrom>>
    /\ UNCHANGED <<snapVars, imgVars, pollVars, locVars, mainVars, waitVars, retryVars,
                   testVars>>

(* The wait of a freeze command is over (lines 182-189): its outcome is logged
   (lines 191-201), and the loop of line 172 dispatches the command of the
   next filesystem or the function returns. *)
UpdFreezeRead ==
    /\ script = "update_ami"
    /\ wpc = "freeze_wait"
    /\ IF fsIdx < Len(filesystems)
       THEN \E out \in ExecOutcomes :
              /\ callLog' = AwaitedLogged \o FsCommand("freeze", fsIdx + 1, out)
              /\ IF FreezeExits("connected", out)
                 THEN wpc' = "SystemExit" /\ fsIdx' = 0
                 ELSE wpc' = "freeze_wait" /\ fsIdx' = fsIdx + 1
       ELSE /\ callLog' = AwaitedLogged
            /\ wpc' = "create_ami"
            /\ fsIdx' = 0
    /\ UNCHANGED <<cloud, imageSeq, instances, elbInstances, tgTargets, tmp,
                   script, operation, cookie, runs, wtimeout,
                   current_instance_id, current_image_id, current_elb_names,
                   current_target_group_arns, elb_names, target_group_arns,
                   wtimer, sawAbsent, written, removedFrom>>
    /\ UNCHANGED <<snapVars, imgVars, pollVars, locVars, mainVars, waitVars, retryVars,
                   testVars>>

(* Line 368: create_ami (lines 56-80). When create_image raises, the error is
   logged and line 80 then reads `response`, which was never bound. *)
UpdCreateAmi ==
    /\ script = "update_ami"
    /\ wpc = "create_ami"
    /\ \E ok \in BOOLEAN :
         IF ok
         THEN /\ cloud' = Append(cloud, [id |-> imageSeq + 1, owner |-> Self,
                                         name |-> CurrentName(hostname),
                                         state |-> "pending"])
              /\ imageSeq' = imageSeq + 1
              /\ callLog' = Append(callLog,
                                   Call("create_image", CurrentName(hostname)))
              /\ wpc' = "unfreeze"
         ELSE /\ callLog' = Append(callLog,
                                   Call("logger.error", "Failed to create AMI."))
              /\ wpc' = "UnboundLocalError"
              /\ UNCHANGED <<cloud, imageSeq>>
    /\ UNCHANGED <<instances, elbInstances, tgTargets, tmp, script, operation,
                   cookie, runs, wtimeout, current_instance_id,
                   current_image_id, current_elb_names,
                   current_target_group_arns, elb_names, target_group_arns,
                   wtimer, sawAbsent, written, removedFrom>>
    /\ UNCHANGED <<snapVars, imgVars, pollVars, locVars, mainVars, waitVars, retryVars,
                   testVars, sshVars>>

(* Lines 370-371: freeze_or_unfreeze_filesystems(..., 'unfreeze') up to its
   first wait. *)
UpdUnfreeze ==
    /\ script = "update_ami"
    /\ wpc = "unfreeze"
    /\ \E conn \in ConnectOutcomes, out \in ExecOutcomes :
         /\ callLog' = callLog \o FreezeCalls("unfreeze", conn, out)
         /\ IF FreezeExits(conn, out)
            THEN wpc' = "SystemExit" /\ fsIdx' = 0
            ELSE IF filesystems = <<>>
            THEN wpc' = "start_service" /\ fsIdx' = 0
            ELSE wpc' = "unfreeze_wait" /\ fsIdx' = 1
    /\ UNCHANGED <<cloud, imageSeq, instances, elbInstances, tgTargets, tmp,
                   script, operation, cookie, runs, wtimeout,
                   current_instance_id, current_image_id, current_elb_names,
                   current_target_group_arns, elb_names, target_group_arns,
                   wtimer, sawAbsent, written, removedFrom>>
    /\ UNCHANGED <<snapVars, imgVars, pollVars, locVars, mainVars, waitVars, retryVars,
                   testVars>>

(* The wait of a unfreeze command is over (lines 182-189): its outcome is logged
   (lines 191-201), and the loop of line 172 dispatches the command of the
   next filesystem or the function returns. *)
UpdUnfreezeRead ==
    /\ script = "update_ami"
    /\ wpc = "unfreeze_wait"
    /\ IF fsIdx < Len(filesystems)
       THEN \E out \in ExecOutcomes :
              /\ callLog' = AwaitedLogged \o FsCommand("unfreeze", fsIdx + 1, out)
              /\ IF FreezeExits("connected", out)
                 THEN wpc' = "SystemExit" /\ fsIdx' = 0
                 ELSE wpc' = "unfreeze_wait" /\ fsIdx' = fsIdx + 1
       ELSE /\ callLog' = AwaitedLogged
            /\ wpc' = "start_service"
            /\ fsIdx' = 0
    /\ UNCHANGED <<cloud, imageSeq, instances, elbInstances, tgTargets, tmp,
                   script, operation, cookie, runs, wtimeout,
                   current_instance_id, current_image_id, current_elb_names,
                   current_target_group_arns, elb_names, target_group_arns,
                   wtimer, sawAbsent, written, removedFrom>>
    /\ UNCHANGED <<snapVars, imgVars, pollVars, locVars, mainVars, waitVars, retryVars,
                   testVars>>

(* Line 372: start_or_stop_service(..., 'start', 'postgresql') up to its wait. *)
UpdStartService ==
    /\ script = "update_ami"
    /\ wpc = "start_service"
    /\ \E conn \in ConnectOutcomes, out \in ExecOutcomes :
         /\ callLog' = callLog \o ServiceCalls("start", conn, out)
         /\ wpc' = IF ServiceExits(conn, out) THEN "SystemExit"
                   ELSE "start_service_wait"
    /\ UNCHANGED <<cloud, imageSeq, instances, elbInstances, tgTargets, tmp,
                   script, operation, cookie, runs, wtimeout,
                   current_instance_id, current_image_id, current_elb_names,
                   current_target_group_arns, elb_names, target_group_arns,
                   wtimer, sawAbsent, written, removedFrom>>
    /\ UNCHANGED <<snapVars, imgVars, pollVars, locVars, mainVars, waitVars, retryVars,
                   testVars, sshVars>>

(* The wait of the start command is over (lines 236-243): its outcome is logged
   (lines 245-257) and start_or_stop_service returns. *)
UpdStartServiceRead ==
    /\ script = "update_ami"
    /\ wpc = "start_service_wait"
    /\ callLog' = AwaitedLogged
    /\ wpc' = "done"
    /\ UNCHANGED <<cloud, imageSeq, instances, elbInstances, tgTargets, tmp,
                   script, operation, cookie, runs, wtimeout,
                   current_instance_id, current_image_id, current_elb_names,
                   current_target_group_arns, elb_names, target_group_arns,
                   wtimer, sawAbsent, written, removedFrom>>
    /\ UNCHANGED <<snapVars, imgVars, pollVars, locVars, mainVars, waitVars, retryVars,
                   testVars, sshVars>>

----------------------------------------------------------------------------
(* update_ami.py: the wait for the end of the remote command's output     *)
(* (lines 182-189 and 236-243).                                            *)

(* The number of sleep(1) calls a wait is followed for. *)
MaxWaitSleeps == 12

(* How long one sleep(1) and the time() call after it may take beyond the
   second asked for, in whole seconds. *)
MaxOverhead == 1

(* Lines 182 and 236. *)
wait_seconds == 8

WaitFns == {"start_or_stop_service", "freeze_or_unfreeze_filesystems"}

(* The mutant of eof_wait_step: the deadline is never looked at. *)
eof_wait_step_no_deadline(el, dur) ==
    [elapsed |-> el + dur, closed |-> FALSE, exit |-> FALSE]

(* The rest of one turn of `while not stdout.channel.eof_received` once
   sleep(1) has taken dur seconds: `if time() > endtime`, both channels are
   closed and the loop is left. *)
eof_wait_step(el, dur) ==
    [elapsed |-> el + dur, closed |-> el + dur > wait_seconds,
     exit |-> el + dur > wait_seconds]

(* The transport thread sets eof_received while the function is at the
   loop condition or asleep. *)
WaitEofReceived ==
    /\ waitRes \in {"waiting", "sleeping"}
    /\ ~eof_received
    /\ eof_received' = TRUE
    /\ UNCHANGED <<waitFn, elapsed, waitSleeps, channelsClosed, waitRes>>
    /\ UNCHANGED <<snapVars, imgVars, pollVars, locVars, flowVars, mainVars, retryVars>>

(* Lines 184 and 238: the loop condition finds eof_received set. *)
WaitLoopExit ==
    /\ waitRes = "waiting"
    /\ eof_received
    /\ waitRes' = "reading"
    /\ UNCHANGED <<waitFn, eof_received, elapsed, waitSleeps, channelsClosed>>
    /\ UNCHANGED <<snapVars, imgVars, pollVars, locVars, flowVars, mainVars, retryVars>>

(* Lines 184-185 and 238-239: the loop condition finds eof_received unset
   and the function goes to sleep. *)
WaitLoopEnter ==
    /\ waitRes = "waiting"
    /\ ~eof_received
    /\ waitSleeps < MaxWaitSleeps
    /\ waitRes' = "sleeping"
    /\ UNCHANGED <<waitFn, eof_received, elapsed, waitSleeps, channelsClosed>>
    /\ UNCHANGED <<snapVars, imgVars, pollVars, locVars, flowVars, mainVars, retryVars>>

(* Lines 185-189 and 239-243: the sleep ends and the deadline is tested,
   whether or not eof_received was set in the meantime. *)
WaitSleep ==
    /\ waitRes = "sleeping"
    /\ \E dur \in 1..(1 + MaxOverhead) :
         LET step == eof_wait_step(elapsed, dur)
         IN  /\ elapsed' = step.elapsed
             /\ channelsClosed' = step.closed
             /\ waitRes' = IF step.exit THEN "reading" ELSE "waiting"
    /\ waitSleeps' = waitSleeps + 1
    /\ UNCHANGED <<waitFn, eof_received>>
    /\ UNCHANGED <<snapVars, imgVars, pollVars, locVars, flowVars, mainVars, retryVars>>

(* Lines 191-203 and 245-257: the output is read and logged and the function
   returns; a command that did not signal its end is one that answered
   "no-eof" to the step of main. *)
WaitRead ==
    /\ waitRes = "reading"
    /\ \E out \in IF eof_received THEN {"clean", "stderr"} ELSE {"no-eof"} :
         waitRes' = IF waitFn = "start_or_stop_service"
                    THEN IF ServiceExits("connected", out)
                         THEN "SystemExit" ELSE "returned"
                    ELSE IF FreezeExits("connected", out)
                         THEN "SystemExit" ELSE "returned"
    /\ UNCHANGED <<waitFn, eof_received, elapsed, waitSleeps, channelsClosed>>
    /\ UNCHANGED <<snapVars, imgVars, pollVars, locVars, flowVars, mainVars, retryVars>>

WaitIdle ==
    /\ waitFn = "none" /\ eof_received = FALSE /\ elapsed = 0
    /\ waitSleeps = 0 /\ channelsClosed = FALSE /\ waitRes = "idle"

(* Lines 182-183 and 236-237: the command has been dispatched and endtime
   computed; the command may have ended already. *)
InitWait ==
    /\ waitFn \in WaitFns
    /\ eof_received \in BOOLEAN
    /\ elapsed = 0
    /\ waitSleeps = 0
    /\ channelsClosed = FALSE
    /\ waitRes = "waiting"

RetryIdle == max_tries = 0 /\ executions = 0

----------------------------------------------------------------------------
(* update_ami.py: wait_deregister under @AWSRetry.backoff() (line 272).    *)

(* The executions the decorator allows one call. *)
MaxTries == 3

(* The error codes a describe_images call may raise: one the decorator
   retries on, one it does not. *)
DescribeErrors == {"RequestLimitExceeded", "AuthFailure"}
RetryCodes == {"RequestLimitExceeded"}

(* The decorator catches the ClientError of an execution and runs the
   function again while it has executions left and the code is one it
   retries on; any other error is raised again. *)
backoff_retries(code, tries) == code \in RetryCodes /\ tries > 1

(* Lines 286-299: one describe_images call that answers and the turn of the
   loop it decides. *)
RetryWaitDeregisterTurn ==
    /\ pollFn = "update_ami.wait_deregister"
    /\ pollRes = "polling"
    /\ Len(pollLog) < MaxPolls
    /\ \E n \in FoundCounts :
         PollApply(upd_wait_deregister_step(n, timer, runinterval, timeout),
                   IF n = 0 THEN "not-found" ELSE "found")
    /\ UNCHANGED <<snapVars, imgVars, locVars, flowVars, mainVars, waitVars, retryVars>>

(* Line 286 raises ClientError: the decorator runs wait_deregister again
   from its first line, where line 284 sets timer to 0, or raises the error. *)
RetryDescribeRaises ==
    /\ pollFn = "update_ami.wait_deregister"
    /\ pollRes = "polling"
    /\ Len(pollLog) < MaxPolls
    /\ \E code \in DescribeErrors :
         /\ pollLog' = Append(pollLog, code)
         /\ IF backoff_retries(code, max_tries)
            THEN /\ max_tries' = max_tries - 1
                 /\ executions' = executions + 1
                 /\ timer' = 0
                 /\ UNCHANGED pollRes
            ELSE /\ pollRes' = "ClientError"
                 /\ UNCHANGED <<max_tries, executions, timer>>
    /\ UNCHANGED <<pollFn, timeout, runinterval, pollSleeps>>
    /\ UNCHANGED <<snapVars, imgVars, locVars, flowVars, mainVars, waitVars>>

(* The decorated wait_deregister is called once. *)
InitRetry ==
    /\ pollFn = "update_ami.wait_deregister"
    /\ timeout \in 0..MaxTimeout
    /\ runinterval \in 1..MaxInterval
    /\ timer = 0
    /\ pollSleeps = 0
    /\ pollLog = <<>>
    /\ pollRes = "polling"
    /\ max_tries \in 1..MaxTries
    /\ executions = 1

----------------------------------------------------------------------------
(* Specifications. *)

vars == <<snapVars, imgVars, pollVars, locVars, flowVars, mainVars, waitVars, retryVars>>

NextSnap ==
    \/ SnapDescribeFirst
    \/ SnapNextPage
    \/ SnapRetain
    \/ SnapDelete
    \/ SnapEndPage
    \/ SnapReturn

(* delete_snapshots alone. *)
InitSnapOnly == InitSnap /\ ImgIdle /\ PollIdle /\ LocIdle /\ FlowIdle /\ MainIdle
    /\ WaitIdle /\ RetryIdle
SpecSnap == InitSnapOnly /\ [][NextSnap]_vars

NextSweep ==
    \/ SweepNextAccount
    \/ SnapDescribeFirst
    \/ SnapNextPage
    \/ SnapRetain
    \/ SnapDelete
    \/ SnapEndPage
    \/ SnapReturn
    \/ SweepDeregisterImages
    \/ ImgSelect
    \/ ImgDeregister
    \/ ImgReturn

(* A run of ami_sweeper.py over its accounts. *)
InitSweepOnly == InitSweep /\ PollIdle /\ LocIdle /\ FlowIdle
    /\ WaitIdle /\ RetryIdle
SpecSweep == InitSweepOnly /\ [][NextSweep]_vars

NextImg ==
    \/ ImgSelect
    \/ ImgDeregister
    \/ ImgReturn

(* deregister_images alone. *)
InitImgOnly == InitImg /\ SnapIdle /\ PollIdle /\ LocIdle /\ FlowIdle /\ MainIdle
    /\ WaitIdle /\ RetryIdle
SpecImg == InitImgOnly /\ [][NextImg]_vars


NextPoll ==
    \/ PollWaitCopy
    \/ PollWaitDeregisterFab
    \/ PollWaitDeregisterUpd

(* One poll loop alone, whatever the describe calls answer. *)
InitPollOnly == InitPoll /\ SnapIdle /\ ImgIdle /\ LocIdle /\ FlowIdle /\ MainIdle
    /\ WaitIdle /\ RetryIdle
SpecPoll == InitPollOnly /\ [][NextPoll]_vars

NextLoc ==
    \/ LocFabFindAmi
    \/ LocUpdFindAmi
    \/ LocFabFindInstance
    \/ LocUpdFindInstance

(* One locator call alone, on whatever the cloud enumerates. *)
InitLocOnly == InitLoc /\ SnapIdle /\ ImgIdle /\ PollIdle /\ FlowIdle /\ MainIdle
    /\ WaitIdle /\ RetryIdle
SpecLoc == InitLocOnly /\ [][NextLoc]_vars

NextDeploy ==
    \/ FabStart
    \/ FabFindInstance
    \/ FabFindElbs
    \/ FabFindTargetGroups
    \/ FabStoreElbs
    \/ FabStoreTargetGroups
    \/ FabDeregisterFromElbs
    \/ FabDeregisterFromTargetGroups
    \/ FabFindAmi
    \/ FabCopyAmi
    \/ FabDeregisterAmi
    \/ FabWaitDeregister
    \/ FabRetrieveElbs
    \/ FabRetrieveTargetGroups
    \/ FabRegisterWithElbs
    \/ FabRegisterWithTargetGroups
    \/ FabCleanUp
    \/ FabCreateAmi
    \/ UpdStart
    \/ UpdFindAmi
    \/ UpdCopyAmi
    \/ UpdDeregisterAmi
    \/ UpdWaitDeregister
    \/ UpdFindInstance
    \/ UpdValidateUser
    \/ UpdStopService
    \/ UpdStopServiceRead
    \/ UpdFreeze
    \/ UpdFreezeRead
    \/ UpdCreateAmi
    \/ UpdUnfreeze
    \/ UpdUnfreezeRead
    \/ UpdStartService
    \/ UpdStartServiceRead
    \/ CloudForget

(* Runs of fabfile.py main, or of update_ami.py, one after the other on one
   host, while the cloud completes the deregistrations it accepted, for
   every choice of the images and of the instances of the account. The
   instance is in every load balancer and target group or in none (SpecStore
   has the other memberships and the runs of `fab test`); update_ami.py
   reads no membership and no file of /tmp. *)
InitDeploy ==
    /\ script \in {"fab", "update_ami"}
    /\ InitFlow
    /\ \A n \in ELBNames : \A a \in TargetGroupArns : elbInstances[n] = tgTargets[a]
    /\ script = "update_ami" =>
          /\ \A n \in ELBNames : elbInstances[n] = {}
          /\ \A a \in TargetGroupArns : tgTargets[a] = {}
          /\ \A d \in DirIds : ~tmp[d].exists
    /\ SnapIdle /\ ImgIdle /\ PollIdle /\ LocIdle /\ MainIdle
    /\ WaitIdle /\ RetryIdle
SpecDeploy == InitDeploy /\ [][NextDeploy]_vars

NextStore ==
    \/ FabTestStart
    \/ FabTestWaits
    \/ FabTestRetrieve
    \/ FabTestCleanUp
    \/ FabStart
    \/ FabFindInstance
    \/ FabFindElbs
    \/ FabFindTargetGroups
    \/ FabStoreElbs
    \/ FabStoreTargetGroups
    \/ FabDeregisterFromElbs
    \/ FabDeregisterFromTargetGroups
    \/ FabFindAmi
    \/ FabCopyAmi
    \/ FabDeregisterAmi
    \/ FabWaitDeregister
    \/ FabRetrieveElbs
    \/ FabRetrieveTargetGroups
    \/ FabRegisterWithElbs
    \/ FabRegisterWithTargetGroups
    \/ FabCleanUp
    \/ FabCreateAmi
    \/ CloudForget

(* Runs of fabfile.py main one after the other on one host whose instance
   is running and whose current image exists, and runs of `fab test` one
   after the other on the same host, at the same time. *)
InitStore ==
    /\ script = "fab"
    /\ InitFlow
    /\ cloud = <<ImageOf(1, Self, CurrentName(Fqn))>>
    /\ instances = <<InstanceOf(1, Fqn, "running")>>
    /\ SnapIdle /\ ImgIdle /\ PollIdle /\ LocIdle /\ MainIdle
    /\ WaitIdle /\ RetryIdle
SpecStore == InitStore /\ [][NextStore]_vars

NextBackup ==
    \/ FabStart
    \/ FabFindInstance
    \/ FabFindElbs
    \/ FabFindTargetGroups
    \/ FabStoreElbs
    \/ FabStoreTargetGroups
    \/ FabDeregisterFromElbs
    \/ FabDeregisterFromTargetGroups
    \/ FabFindAmi
    \/ FabCopyAmi
    \/ FabDeregisterAmi
    \/ FabWaitDeregister
    \/ FabRetrieveElbs
    \/ FabRetrieveTargetGroups
    \/ FabRegisterWithElbs
    \/ FabRegisterWithTargetGroups
    \/ FabCleanUp
    \/ FabCreateAmi
    \/ UpdStart
    \/ UpdFindAmi
    \/ UpdCopyAmi
    \/ UpdDeregisterAmi
    \/ UpdWaitDeregister
    \/ UpdFindInstance
    \/ UpdValidateUser
    \/ UpdStopService
    \/ UpdStopServiceRead
    \/ UpdFreeze
    \/ UpdFreezeRead
    \/ UpdCreateAmi
    \/ UpdUnfreeze
    \/ UpdUnfreezeRead
    \/ UpdStartService
    \/ UpdStartServiceRead
    \/ CloudForget
    \/ CloudImageAvailable

(* The workflows with a cloud that completes its copies, for an instance
   that is in no load balancer and no target group. *)
InitBackup ==
    /\ script \in {"fab", "update_ami"}
    /\ InitFlow
    /\ \A n \in ELBNames : elbInstances[n] = {}
    /\ \A a \in TargetGroupArns : tgTargets[a] = {}
    /\ SnapIdle /\ ImgIdle /\ PollIdle /\ LocIdle /\ MainIdle
    /\ WaitIdle /\ RetryIdle
SpecBackup == InitBackup /\ [][NextBackup]_vars

NextWait ==
    \/ WaitEofReceived
    \/ WaitLoopExit
    \/ WaitLoopEnter
    \/ WaitSleep
    \/ WaitRead

(* One wait for the end of a remote command's output alone. *)
InitWaitOnly ==
    /\ InitWait /\ SnapIdle /\ ImgIdle /\ PollIdle /\ LocIdle /\ FlowIdle
    /\ MainIdle /\ RetryIdle
SpecWait == InitWaitOnly /\ [][NextWait]_vars

NextRetry ==
    \/ RetryWaitDeregisterTurn
    \/ RetryDescribeRaises

(* One call of the decorated wait_deregister alone. *)
InitRetryOnly ==
    /\ InitRetry /\ SnapIdle /\ ImgIdle /\ LocIdle /\ FlowIdle /\ MainIdle
    /\ WaitIdle
SpecRetry == InitRetryOnly /\ [][NextRetry]_vars

----------------------------------------------------------------------------
(* Properties of ami_sweeper.py.                                           *)

(* sub occurs in s, stated on the decompositions of s. *)
IsSubstringOf(sub, s) ==
    \E i \in 0..Len(s) : \E j \in i..Len(s) :
        [k \in 1..(j - i) |-> s[i + k]] = sub

(* sub is the end of s. *)
IsSuffixOf(sub, s) ==
    \E i \in 0..Len(s) : [k \in 1..(Len(s) - i) |-> s[i + k]] = sub

(* A snapshot is protected when its Name tag holds the protected marker. *)
SnapProtected(s) ==
    \E i \in 1..Len(snapAttr[s].tags) :
        /\ snapAttr[s].tags[i].Key = "Name"
        /\ IsSubstringOf(ignore_string, snapAttr[s].tags[i].Value)

SnapOwned(s) == snapAttr[s].owner = Self

(* C1: when the sweep returns, whatever the number of pages, a delete call
   was issued for a snapshot exactly when the snapshot is owned by the
   account and its Name tag does not contain the protected marker. *)
C1_DeleteIffOwnedAndUnprotected ==
    snpc = "returned" =>
        \A s \in DOMAIN snapAttr :
            (s \in Range(deleteCalls)) <=> (SnapOwned(s) /\ ~SnapProtected(s))

ImageCalled(i) == images[i].id \in Range(deregisterCalls)

(* C9: a deregister call is only ever issued for an owned image whose name
   contains the temporary marker, and when deregister_images returns every
   such image has had its call. *)
C9_DeregisterIffOwnedAndMarked ==
    /\ \A i \in 1..Len(images) :
          ImageCalled(i) =>
              (images[i].owner = Self /\ IsSubstringOf(tmp_string, images[i].name))
    /\ impc = "returned" =>
          \A i \in 1..Len(images) :
              (images[i].owner = Self /\ IsSubstringOf(tmp_string, images[i].name))
                  => ImageCalled(i)

(* C9's case: the sweep has returned, an image whose name holds the marker
   before its end was deregistered, and an image of another account whose
   name holds the marker was not. *)
C9_Witness ==
    /\ impc = "returned"
    /\ \E i \in 1..Len(images) :
          /\ ImageCalled(i)
          /\ ~IsSuffixOf(tmp_string, images[i].name)
    /\ \E i \in 1..Len(images) :
          /\ images[i].owner # Self
          /\ IsSubstringOf(tmp_string, images[i].name)
          /\ ~ImageCalled(i)

(* C10: the images deregistered are exactly the owned images whose name
   ends with the marker; an owned image that holds the marker elsewhere is
   left registered. *)
C10_DeregisterIffSuffix ==
    impc = "returned" =>
        \A i \in 1..Len(images) :
            ImageCalled(i) <=>
                (images[i].owner = Self /\ IsSuffixOf(tmp_string, images[i].name))

----------------------------------------------------------------------------
(* Properties of the poll loops.                                           *)

(* The ceiling of t / i, for i > 0. *)
Ceil(t, i) == (t + i - 1) \div i

Max(a, b) == IF a >= b THEN a ELSE b

AllIn(log, kinds) == \A j \in 1..Len(log) : log[j] \in kinds

Front(log) == SubSeq(log, 1, Len(log) - 1)

(* C6 as stated: wait_copy that has seen only not-found answers and failed
   has slept exactly ceil(T/i) times. *)
C6_TimeoutAfterCeilSleeps ==
    (pollFn = "wait_copy" /\ pollRes = "abort" /\ AllIn(pollLog, {"not-found"}))
        => pollSleeps = Ceil(timeout, runinterval)

(* C6, amended: in wait_copy, k answers that are not-found or not available,
   k < ceil(T/i), leave the loop polling after k sleeps; an available answer
   after them returns success with k sleeps made; answers that are all
   not-found fail with the timeout after exactly max(1, ceil(T/i)) sleeps. *)
C6_WaitCopySleeps ==
    pollFn = "wait_copy" =>
        /\ (AllIn(pollLog, {"not-found", "pending"})
              /\ Len(pollLog) < Ceil(timeout, runinterval))
             => (pollRes = "polling" /\ pollSleeps = Len(pollLog))
        /\ (pollLog # <<>> /\ pollLog[Len(pollLog)] = "available"
              /\ AllIn(Front(pollLog), {"not-found", "pending"})
              /\ Len(pollLog) - 1 < Ceil(timeout, runinterval))
             => (pollRes = "returned" /\ pollSleeps = Len(pollLog) - 1)
        /\ (AllIn(pollLog, {"not-found"})
              /\ Len(pollLog) >= Max(1, Ceil(timeout, runinterval)))
             => (pollRes = "abort"
                 /\ pollSleeps = Max(1, Ceil(timeout, runinterval)))

(* C6's case: two answers without an available image, then an available
   one: success after two sleeps. *)
C6_Witness ==
    /\ pollFn = "wait_copy"
    /\ pollLog = <<"not-found", "pending", "available">>
    /\ pollRes = "returned"
    /\ pollSleeps = 2

IsWaitDeregister == pollFn \in {"fab.wait_deregister", "update_ami.wait_deregister"}

(* C7: in both wait_deregister loops, k found answers, k < ceil(T/i), leave
   the loop polling after k sleeps; a not-found answer after them returns
   success with k sleeps made; found on every poll until the timeout raises
   MyTimeoutError, and success is only ever returned on a not-found answer. *)
C7_WaitDeregisterSleeps ==
    IsWaitDeregister =>
        /\ (AllIn(pollLog, {"found"}) /\ Len(pollLog) < Ceil(timeout, runinterval))
             => (pollRes = "polling" /\ pollSleeps = Len(pollLog))
        /\ (pollLog # <<>> /\ pollLog[Len(pollLog)] = "not-found"
              /\ AllIn(Front(pollLog), {"found"})
              /\ Len(pollLog) - 1 < Ceil(timeout, runinterval))
             => (pollRes = "returned" /\ pollSleeps = Len(pollLog) - 1)
        /\ (AllIn(pollLog, {"found"})
              /\ Len(pollLog) >= Max(1, Ceil(timeout, runinterval)))
             => pollRes = "MyTimeoutError"
        /\ pollRes = "returned"
             => (pollLog # <<>> /\ pollLog[Len(pollLog)] = "not-found")

(* C7's case: found twice, then not-found: success after two sleeps. *)
C7_Witness ==
    /\ IsWaitDeregister
    /\ pollLog = <<"found", "found", "not-found">>
    /\ pollRes = "returned"
    /\ pollSleeps = 2

----------------------------------------------------------------------------
(* Properties of the locators.                                             *)

HasNameTag(r, name) ==
    \E j \in 1..Len(r.tags) : r.tags[j].Key = "Name" /\ r.tags[j].Value = name

IsImageLocator == locFn \in {"fab.find_ami_id", "update_ami.find_ami_id"}

(* The resource at position i is one the locator may return, when a running
   state is asked of instances or not. *)
LocMatch(i, needRunning) ==
    /\ resources[i].owner = Self
    /\ IF IsImageLocator
       THEN resources[i].name = search_name
       ELSE /\ HasNameTag(resources[i], search_name)
            /\ (needRunning => resources[i].state = "running")

(* The call returned the id of the first match, or aborted without one. *)
LocFirstMatch(needRunning) ==
    IF \E i \in 1..Len(resources) : LocMatch(i, needRunning)
    THEN \E i \in 1..Len(resources) :
            /\ LocMatch(i, needRunning)
            /\ \A j \in 1..(i - 1) : ~LocMatch(j, needRunning)
            /\ locRes = [ret |-> resources[i].id]
    ELSE locRes \in {[exit |-> "abort"], [exit |-> "SystemExit"]}

LocCalled == locFn # "none" /\ locRes # NotCalled

(* C5 as stated: each of the four locators returns the first owned resource
   of the name, which for an instance is running, and aborts without one. *)
C5_FirstRunningMatch == LocCalled => LocFirstMatch(TRUE)

----------------------------------------------------------------------------
(* Properties of the workflows.                                            *)

(* The positions in the log of the run of the calls of one operation. *)
CallsOf(op) == {i \in 1..Len(callLog) : callLog[i].op = op}
ArgsOf(op) == {callLog[i].arg : i \in CallsOf(op)}

(* The remote commands of the run. *)
FsCommands(action) ==
    {i \in CallsOf("fsfreeze") : callLog[i].arg[1] = action}
ServiceCommands(action) ==
    {i \in CallsOf("service") : callLog[i].arg = action}
RemoteCommands == CallsOf("fsfreeze") \cup CallsOf("service")

CreateErrors ==
    {i \in CallsOf("logger.error") : callLog[i].arg = "Failed to create AMI."}
CreateFailed == CreateErrors # {}

(* C2: in update_ami.py, once the create_image call has failed the run goes
   on to the unfreeze and the start of the service (it can only end earlier
   by a failure of SSH in these two steps), and a run that completes has
   issued the unfreeze command of every filesystem and then the start
   command after the failure was logged. *)
C2_CreateFailureNotFatal ==
    (script = "update_ami" /\ CreateFailed) =>
        /\ wpc \in {"unfreeze", "unfreeze_wait", "start_service",
                    "start_service_wait", "done", "SystemExit"}
        /\ wpc = "done" =>
              \E e \in CreateErrors, s \in ServiceCommands("start") :
                 /\ \A k \in 1..Len(filesystems) :
                       \E u \in FsCommands("unfreeze") :
                          /\ callLog[u].arg[2] = filesystems[k]
                          /\ e < u /\ u < s

InPredeploy == script = "fab" /\ operation = "predeploy"
InPostdeploy == script = "fab" /\ operation = "postdeploy"

AtCleanUp == InPostdeploy /\ wpc = "clean_up"

(* What a store wrote and a retrieve read back are the same entries. *)
ReadBack(ids, stored) ==
    IF stored = {} THEN ids = <<>> ELSE Range(ids) \in stored

(* C3: when postdeploy for cookie K has registered the instance, what it
   read back for each category are the entries predeploy stored for K, and
   its register calls name exactly the load balancers and the target groups
   predeploy for K deregistered the instance from. *)
C3_RoundTrip ==
    AtCleanUp =>
        /\ ReadBack(elb_names, written[cookie].elb)
        /\ ReadBack(target_group_arns, written[cookie].tg)
        /\ ArgsOf("register_instances_with_load_balancer")
              = removedFrom[cookie].elb
        /\ ArgsOf("register_targets") = removedFrom[cookie].tg

AfterCleanUpStep ==
    script = "fab" /\ operation = "postdeploy" /\ wpc \in {"create_ami", "done"}

ContinuityFiles(ck) ==
    {FileName(ck, LoadBalancer), FileName(ck, TargetGroup)}

(* C4: the clean_up of postdeploy never raises, and once postdeploy for
   cookie K is past it no directory of /tmp holds a continuity file of K
   and no directory that the deletion emptied is left. *)
C4_CleanUpRemovesFiles ==
    /\ InPostdeploy => wpc # "OSError"
    /\ AfterCleanUpStep =>
          \A d \in DirIds :
             /\ tmp[d].exists => tmp[d].files # {}
             /\ \A f \in tmp[d].files : f.name \notin ContinuityFiles(cookie)

DeregisteredCurrent == CallsOf("deregister_image") # {}

(* The positions of a run that follow the poll. *)
PastThePoll ==
    \/ script = "update_ami"
       /\ wpc \in {"find_instance", "validate_user", "stop_service", "freeze",
                   "create_ami", "unfreeze", "start_service", "done",
                   "UnboundLocalError"} \cup EofWaits
    \/ script = "fab" /\ operation = "predeploy" /\ wpc = "done"

(* C8: in a run that has deregistered the image <name>_CURRENT, every call
   that follows the deregistration, and every position past the poll, comes
   after a describe response that listed no image of the name; a run the
   timeout ended has made no call after the deregistration. *)
C8_NoStepBeforeDisappearance ==
    /\ (DeregisteredCurrent /\ PastThePoll) => sawAbsent
    /\ \A i \in CallsOf("deregister_image") :
          (\E j \in (i + 1)..Len(callLog) : TRUE) => sawAbsent
    /\ (CallsOf("create_image") # {} /\ DeregisteredCurrent) => sawAbsent
    /\ (RemoteCommands # {}) => sawAbsent
    /\ wpc = "MyTimeoutError" =>
          /\ ~sawAbsent
          /\ callLog # <<>>
          /\ callLog[Len(callLog)].op = "deregister_image"

(* A freeze-refresh run has completed: its poll first saw the image, then
   saw the name gone, and the new image was created after that. *)
C8_Witness ==
    /\ script = "update_ami"
    /\ wpc = "done"
    /\ sawAbsent
    /\ \E i \in CallsOf("deregister_image"), j \in CallsOf("create_image") : i < j
    /\ wtimer > 0

----------------------------------------------------------------------------
(* Properties of the loop over the accounts.                               *)

LastDelete == Len(deleteLog)

(* C16: a delete that fails with InvalidSnapshot.InUse leaves the snapshot
   in the retained list and does not end the sweep; a delete that fails
   with any other error is the last call of the sweep: delete_snapshots
   ends with SystemExit, and deregister_images is not called for the
   account. *)
C16_InUseRetainedOtherErrorFatal ==
    /\ Len(deleteLog) = Len(deleteCalls)
    /\ \A i \in 1..LastDelete :
          /\ deleteLog[i] = "InUse" =>
                /\ deleteCalls[i] \in Range(retained_snapshots)
                /\ deleteCalls[i] \notin Range(deleted_snapshots)
                /\ (i = LastDelete => snpc # "SystemExit")
          /\ deleteLog[i] \notin {"deleted", "InUse"} =>
                /\ i = LastDelete
                /\ snpc = "SystemExit"
                /\ impc = "pending"
                /\ deregisterCalls = <<>>
                /\ deleteCalls[i] \notin Range(retained_snapshots)
                /\ deleteCalls[i] \notin Range(deleted_snapshots)
    /\ snpc = "SystemExit" =>
          /\ LastDelete > 0
          /\ deleteLog[LastDelete] \notin {"deleted", "InUse"}

(* A sweep retained a snapshot in use and then ended on another error. *)
C16_Witness ==
    /\ snpc = "SystemExit"
    /\ LastDelete = 2
    /\ deleteLog[1] = "InUse"
    /\ deleteLog[2] = "OtherError"
    /\ impc = "pending"

(* The delete calls made on the snapshot of the i-th call. *)
AttemptsOn(i) ==
    Cardinality({j \in 1..Len(deleteCalls) : deleteCalls[j] = deleteCalls[i]})

(* C20: a call that fails with a transient error (RequestLimitExceeded) is
   attempted again; the sweep ends on such an error only after more than
   one attempt. *)
C20_TransientErrorRetried ==
    (snpc = "SystemExit" /\ LastDelete > 0
        /\ deleteLog[LastDelete] = "RequestLimitExceeded")
    => AttemptsOn(LastDelete) > 1

----------------------------------------------------------------------------
(* Properties of predeploy and postdeploy.                                 *)

(* The lines of the files of /tmp named <ck>_<category>. *)
RecordedUnder(ck, category) ==
    UNION {Range(ReadLines(f.content)) :
              f \in {g \in UNION {tmp[d].files : d \in DirIds} :
                        g.name = ck \o <<"_">> \o category}}

(* The instance of the host that the runs of fabfile.py main find. *)
InstanceOfHost == fab_find_instance_id(instances, Fqn)

(* C11: in every state, each load balancer and each target group that a
   predeploy run for cookie K took the instance out of, and that the
   instance is still out of, is a line of a file of its category stored
   under K. *)
C11_StoredBeforeDeregistered ==
    (script = "fab" /\ "ret" \in DOMAIN InstanceOfHost) =>
        \A k \in Cookies :
           /\ \A n \in removedFrom[k].elb :
                 InstanceOfHost.ret \notin elbInstances[n]
                    => Append(n, "\n") \in RecordedUnder(k, LoadBalancer)
           /\ \A a \in removedFrom[k].tg :
                 InstanceOfHost.ret \notin tgTargets[a]
                    => Append(a, "\n") \in RecordedUnder(k, TargetGroup)

Polled == sawAbsent \/ wtimer > 0
DeregisterAccepted == CallsOf("deregister_image")
DeregisterRefused == CallsOf("deregister_image refused")

(* C12: a deregister_image call comes after a copy_image call that
   returned; the run polls only after a deregister_image that answered 200;
   after any other answer the run has ended at once, without a poll. *)
C12_CopyThenDeregisterThenPoll ==
    /\ \A i \in DeregisterAccepted \cup DeregisterRefused :
          \E j \in CallsOf("copy_image") : j < i
    /\ (Polled \/ wpc \in {"wait_deregister", "MyTimeoutError"})
          => DeregisterAccepted # {}
    /\ DeregisterRefused # {} =>
          /\ wpc \in {"abort", "SystemExit"}
          /\ ~Polled
          /\ DeregisterAccepted = {}
          /\ Len(callLog) \in DeregisterRefused

(* A predeploy run has copied, deregistered and polled until the name was
   gone. *)
C12_Witness ==
    /\ InPredeploy
    /\ wpc = "done"
    /\ sawAbsent
    /\ wtimer > 0
    /\ \E j \in CallsOf("copy_image"), i \in DeregisterAccepted : j < i

RegisterCalls ==
    CallsOf("register_instances_with_load_balancer") \cup CallsOf("register_targets")

(* Postdeploy is past retrieve_from_disk and read nothing back. *)
ReadNothingBack ==
    /\ InPostdeploy
    /\ current_instance_id # 0
    /\ wpc \notin {"retrieve_elbs", "retrieve_target_groups"}
    /\ elb_names = <<>>
    /\ target_group_arns = <<>>

(* C17: a postdeploy run that found no continuity file of its cookie issues
   no register call and no error ends it before create_image: it is on its
   way to create_image, or has made the call. *)
C17_NoFileNoRegister ==
    ReadNothingBack =>
        /\ RegisterCalls = {}
        /\ wpc \in {"register_with_elbs", "register_with_target_groups",
                    "clean_up", "create_ami", "done", "ClientError"}
        /\ wpc = "ClientError" => callLog = <<>>
        /\ wpc = "done" => CallsOf("create_image") = {1}

----------------------------------------------------------------------------
(* Properties of update_ami.py.                                            *)

InRefresh == script = "update_ami"

(* The create_image calls of the run, those that raised included. *)
CreateIssued == CallsOf("create_image") \cup CreateErrors

(* Some command of the set was issued for every filesystem between the
   positions lo and hi of the log. *)
EveryFilesystem(cmds, lo, hi) ==
    \A k \in 1..Len(filesystems) :
       \E c \in cmds : /\ callLog[c].arg[2] = filesystems[k]
                       /\ lo < c /\ c < hi

(* C13: in update_ami.py the stop command precedes the freeze commands,
   create_image is called after a freeze command for every filesystem and
   before any unfreeze command, and the start command follows an unfreeze
   command for every filesystem. *)
C13_FreezeRefreshOrder ==
    InRefresh =>
        /\ \A f \in FsCommands("freeze") :
              \E s \in ServiceCommands("stop") : s < f
        /\ \A c \in CreateIssued :
              /\ \E s \in ServiceCommands("stop") :
                    EveryFilesystem(FsCommands("freeze"), s, c)
              /\ \A u \in FsCommands("unfreeze") : c < u
        /\ \A u \in FsCommands("unfreeze") : \E c \in CreateIssued : c < u
        /\ \A s \in ServiceCommands("start") :
              /\ \E c \in CreateIssued :
                    EveryFilesystem(FsCommands("unfreeze"), c, s)
              /\ \A t \in ServiceCommands("stop") : t < s

(* A run of update_ami.py has issued the five steps and completed. *)
C13_Witness ==
    /\ InRefresh
    /\ wpc = "done"
    /\ CallsOf("create_image") # {}
    /\ ServiceCommands("start") # {}
    /\ FsCommands("unfreeze") # {}

(* C14: a run of update_ami.py that issued the stop command and has ended
   has issued an unfreeze command for every filesystem and the start
   command. *)
C14_CleanupAlwaysIssued ==
    (InRefresh /\ wpc \in Terminal /\ ServiceCommands("stop") # {}) =>
        /\ EveryFilesystem(FsCommands("unfreeze"), 0, Len(callLog) + 1)
        /\ ServiceCommands("start") # {}

InstanceMissing == "exit" \in DOMAIN upd_find_instance_id(instances, hostname)

(* C15: in update_ami.py the instance has been located when copy_image or
   deregister_image is called, and a run that ends because no instance has
   the name has not deregistered the image. *)
C15_LocateBeforeCopy ==
    InRefresh =>
        /\ (CallsOf("copy_image") # {} \/ DeregisterAccepted # {})
              => current_instance_id # 0
        /\ (InstanceMissing /\ wpc = "SystemExit") => DeregisterAccepted = {}

(* The commands whose output has ended with lines on stderr; the command
   a run still waits for has not answered. *)
AnsweredOnStderr ==
    {i \in 1..Len(callLog) :
        /\ "out" \in DOMAIN callLog[i] /\ callLog[i].out = "stderr"
        /\ ~(wpc \in EofWaits /\ i = Len(callLog))}
SshFailures ==
    {i \in CallsOf("logger.error") : callLog[i].arg # "Failed to create AMI."}

(* C19: a remote command that answered on stderr was dispatched and is
   logged as failed, and the run goes on to its next step; a failure of the
   SSH connection or of the dispatch is the last thing the run did, and the
   run ended with SystemExit. *)
C19_StderrLoggedFailuresFatal ==
    InRefresh =>
        /\ \A i \in AnsweredOnStderr :
              /\ callLog[i].op \in {"service", "fsfreeze"}
              /\ i < Len(callLog)
              /\ callLog[i + 1] = CommandLogged("stderr")
              /\ (i + 1 = Len(callLog)) =>
                    wpc \in {"freeze", "create_ami", "start_service", "done"}
        /\ \A i \in SshFailures :
              /\ i = Len(callLog)
              /\ wpc = "SystemExit"

(* Every remote command of a run answered on stderr and the run completed. *)
C19_Witness ==
    /\ InRefresh
    /\ wpc = "done"
    /\ Cardinality(AnsweredOnStderr) = 2 + 2 * Len(filesystems)


----------------------------------------------------------------------------
(* The error kind of a poll loop that exceeds its bound.                   *)

LastAnswer == pollLog[Len(pollLog)]

PollEnded == pollLog # <<>> /\ pollRes # "polling"

(* C18 as stated: every poll loop that exceeds its bound, wait_copy as well
   as wait_deregister, ends with MyTimeoutError. *)
C18_EveryTimeoutIsMyTimeoutError ==
    (PollEnded /\ pollRes # "returned") => pollRes = "MyTimeoutError"

(* C18, amended: a wait_deregister loop that ends on a found answer has
   reached its bound and ends with MyTimeoutError; a wait_copy loop that ends
   on an answer other than available has reached its bound and ends with the
   abort its docstring announces, the error kind of every other abort;
   neither loop ever ends with the other's error. *)
C18_TimeoutErrorKinds ==
    /\ (IsWaitDeregister /\ PollEnded /\ LastAnswer = "found")
         => (pollRes = "MyTimeoutError" /\ timer >= timeout)
    /\ (pollFn = "wait_copy" /\ PollEnded /\ LastAnswer # "available")
         => (pollRes = "abort" /\ timer >= timeout)
    /\ pollRes = "MyTimeoutError" => IsWaitDeregister
    /\ pollRes = "abort" => pollFn = "wait_copy"

(* C18's case: wait_copy has slept past its bound without seeing an
   available image and has aborted. *)
C18_Witness ==
    /\ pollFn = "wait_copy"
    /\ PollEnded
    /\ LastAnswer = "pending"
    /\ timer >= timeout
    /\ pollSleeps >= 2
    /\ pollRes = "abort"

----------------------------------------------------------------------------
(* Termination of the poll loops.                                          *)

(* C21: whatever the describe calls answer, a poll loop has ended, in
   success or on its timeout, once it has made ceil(T/i) describe calls (one
   call at least): no loop makes more calls than that. *)
C21_PollLoopsTerminate ==
    pollFn # "none" => Len(pollLog) <= Max(1, Ceil(timeout, runinterval))

----------------------------------------------------------------------------
(* Properties of the wait for the remote command's output.                 *)

WaitOver == waitRes \notin {"idle", "waiting", "sleeping"}

(* C22: the wait ends after at most 9 sleeps of one second; while the loop
   runs the 8 seconds have not passed and nothing is closed; the channels
   are closed only once the 8 seconds have passed; a wait that never saw
   the end of the stream leaves the loop only once the 8 seconds have
   passed, with both channels closed, and the function then returns, so
   main goes on to its next step. *)
C22_EofWaitBounded ==
    /\ waitSleeps <= 9
    /\ waitRes \in {"waiting", "sleeping"} => (elapsed <= 8 /\ ~channelsClosed)
    /\ channelsClosed => (elapsed > 8 /\ WaitOver)
    /\ (WaitOver /\ ~eof_received)
         => (elapsed > 8 /\ channelsClosed /\ waitSleeps >= 1)
    /\ WaitOver => waitRes \in {"reading", "returned"}

(* The end of the stream was never signalled: nine sleeps of exactly one
   second, the channels closed, the function returned. *)
C22_Witness ==
    /\ waitFn \in WaitFns
    /\ ~eof_received
    /\ waitSleeps = 9
    /\ channelsClosed
    /\ waitRes = "returned"

----------------------------------------------------------------------------
(* Bookkeeping of the two sweeps of ami_sweeper.py.                        *)

Occurrences(seq, x) == Cardinality({j \in 1..Len(seq) : seq[j] = x})

(* C23: when deregister_images returns, every owned image whose name holds
   the marker had exactly one deregister call, and every owned image is in
   exactly one of the two lists returned: deregistered when its call answered
   200, retained otherwise. *)
C23_EveryOwnedImageInOneList ==
    impc = "returned" =>
        \A i \in 1..Len(images) :
            images[i].owner = Self =>
                /\ Occurrences(deregisterCalls, images[i].id)
                     = (IF IsSubstringOf(tmp_string, images[i].name) THEN 1 ELSE 0)
                /\ Occurrences(images_deregistered, images[i].id)
                     + Occurrences(images_retained, images[i].id) = 1

----------------------------------------------------------------------------
(* Properties of the user validation of update_ami.py.                     *)

UserRefused == {i \in CallsOf("logger.error") : callLog[i].arg = WrongUser.arg}

(* C24: a run of update_ami.py in which validate_user found another user
   has ended there with SystemExit: the refusal is the last entry of the
   run, no remote command was issued and create_image was not called. *)
C24_WrongUserAbortsBeforeRemote ==
    (InRefresh /\ UserRefused # {}) =>
        /\ wpc = "SystemExit"
        /\ UserRefused = {Len(callLog)}
        /\ RemoteCommands = {}
        /\ CreateIssued = {}

(* The run copied and deregistered the image, then met another user. *)
C24_Witness ==
    /\ InRefresh
    /\ UserRefused # {}
    /\ CallsOf("copy_image") # {}
    /\ wpc = "SystemExit"

----------------------------------------------------------------------------
(* The order of the steps of postdeploy.                                   *)

Persisted(category) ==
    {Front(line) : line \in RecordedUnder(cookie, category)}

(* C25: when postdeploy is at clean_up a register call has been issued for
   every load balancer and every target group persisted under its cookie
   and none for create_image; a create_image call comes after every register
   call; past clean_up no continuity file of the cookie is left; and a run
   that ended on a failure has made no create_image call. *)
C25_CreateAfterRegisterAndCleanUp ==
    InPostdeploy =>
        /\ AtCleanUp =>
              /\ Persisted(LoadBalancer)
                    \subseteq ArgsOf("register_instances_with_load_balancer")
              /\ Persisted(TargetGroup) \subseteq ArgsOf("register_targets")
              /\ CallsOf("create_image") = {}
        /\ \A c \in CallsOf("create_image") :
              /\ \A g \in RegisterCalls : g < c
              /\ wpc = "done"
        /\ AfterCleanUpStep =>
              (Persisted(LoadBalancer) = {} /\ Persisted(TargetGroup) = {})
        /\ wpc \in Terminal \ {"done"} => CallsOf("create_image") = {}

(* C26: when delete_snapshots returns, every snapshot of every page is in
   exactly one of the two lists returned, once, and no snapshot had more
   than one delete call. *)
C26_EverySnapshotInOneList ==
    snpc = "returned" =>
        \A s \in DOMAIN snapAttr :
            /\ Occurrences(deleted_snapshots, s)
                 + Occurrences(retained_snapshots, s) = 1
            /\ Occurrences(deleteCalls, s) <= 1

----------------------------------------------------------------------------
(* Isolation of the continuity store.                                      *)

(* The continuity files a store holds for a cookie. *)
FilesOf(fs, ck) ==
    {f \in UNION {fs[d].files : d \in DirIds} : f.name \in ContinuityFiles(ck)}

(* C27: the clean_up of postdeploy for cookie K leaves the continuity files
   stored for every other cookie as they are, also those of a cookie that
   holds K as a substring. *)
C27_CleanUpLeavesOtherCookies ==
    [][AtCleanUp => \A ck \in Cookies \ {cookie} : FilesOf(tmp', ck) = FilesOf(tmp, ck)]_vars

----------------------------------------------------------------------------
(* The timeout of the decorated wait_deregister.                           *)

(* C28: over one call of the decorated wait_deregister, the executions the
   decorator starts after a transient error included, the poll loop sleeps
   at most ceil(timeout/runinterval) times (once at least). *)
C28_TimeoutBoundsWholeWait ==
    pollFn = "update_ami.wait_deregister"
        => pollSleeps <= Max(1, Ceil(timeout, runinterval))

----------------------------------------------------------------------------
(* What an aborted predeploy leaves behind.                                *)

ImageMissing == "exit" \in DOMAIN fab_find_ami_id(cloud, CurrentName(Fqn))

(* Predeploy found the instance and aborted at find_ami_id. *)
AbortedOnMissingImage ==
    /\ InPredeploy /\ wpc = "abort" /\ ImageMissing
    /\ current_instance_id # 0 /\ current_image_id = 0

(* C29: a predeploy run that aborted because no image named fqn_CURRENT was
   found has issued no deregister call, and the instance is still registered
   with every load balancer and target group the run found it in. *)
C29_AbortLeavesRoutingIntact ==
    AbortedOnMissingImage =>
        /\ CallsOf("deregister_instances_from_load_balancer") = {}
        /\ CallsOf("deregister_targets") = {}
        /\ \A n \in current_elb_names : current_instance_id \in elbInstances[n]
        /\ \A a \in current_target_group_arns : current_instance_id \in tgTargets[a]

----------------------------------------------------------------------------
(* The backup copy of the current image.                                   *)

HostOfRun == IF script = "fab" THEN Fqn ELSE hostname

AvailableImages(name) ==
    {i \in 1..Len(cloud) : /\ cloud[i].owner = Self
                           /\ cloud[i].name = name
                           /\ cloud[i].state = "available"}

(* C30: in predeploy and in update_ami, once the current image has been
   found, an available image of the host exists in every state of the run,
   the current one or its temporary copy: the copy is available when the
   current image is deregistered. *)
C30_BackupAvailable ==
    ((InPredeploy \/ InRefresh) /\ current_image_id # 0) =>
        (AvailableImages(CurrentName(HostOfRun)) # {}
            \/ AvailableImages(TmpName(HostOfRun)) # {})

============================================================================
